---- MODULE Spec2Model ----
(***************************************************************************)
(* ble2wled: the beacon registry (states.py), the espresense MQTT ingest   *)
(* adapter (mqtt.py) and the threads that share them.                      *)
(*                                                                         *)
(* Time is the value of time.time(), counted in whole ticks; timeout and   *)
(* fade_out are whole numbers of the same ticks.  A life value (a Python   *)
(* float in the source) is kept as an exact fraction <<n, d>> in lowest    *)
(* terms with d > 0, so 1.0 is <<1, 1>> and 0.0 is <<0, 1>>.               *)
(***************************************************************************)
EXTENDS Integers, Sequences, FiniteSets, TLC

\* ---- bounds of the model ----
\* the clock runs from 0 to MaxTime; timeout is 0..MaxTimeout ticks and
\* fade_out 1..MaxFadeOut ticks; a caller keeps at most MaxHeld returned
\* dicts; the specifications with two threads, with kept dicts and with
\* messages run the clock to ConcMaxTime only, the one of the beacon that
\* expires beside the render loop to ExpiryMaxTime
MaxTime == 5
MaxTimeout == 2
MaxFadeOut == 2
MaxHeld == 1
ConcMaxTime == 1
ExpiryMaxTime == 3
MaxFrames == 2
MaxTrailCalls == 2
MaxRetries == 2
MaxPositionCalls == 5
MaxDuration == 2
MaxColorCalls == 2
MaxRecorded == 3

\* ---- the values the calls are made with ----
BeaconIds == {"a", "b"}
RssiValues == {-50, -60}
Threads == {"main", "mqtt"}
NoOwner == "none"

\* EspresenseBeaconListener.__init__: location="balkon"
DefaultLocation == "balkon"
Locations == {"balkon", "kitchen"}

\* references to dict objects: the registry's own dict, the dicts snapshot()
\* builds, and no object
RegistryRef == 0
NullRef == -1
ObjRefs == 1..(MaxHeld + Cardinality(Threads))

VARIABLES
    clock,      \* time.time()
    timeout,    \* BeaconState.timeout
    fade_out,   \* BeaconState.fade_out
    location,   \* EspresenseBeaconListener.location
    beacons,    \* BeaconState._beacons: beacon_id -> [rssi, last_seen, life]
    lock,       \* BeaconState._lock: its owner, or NoOwner
    frame,      \* per thread: the call it is in, with that call's locals
    heap,       \* the dict objects snapshot() has built: reference -> dict
    held,       \* the references to returned dicts that callers still hold
    hist,       \* history: per stored beacon, the update call that wrote it
    led_count,      \* run_wled_beacons: led_count
    trail_length,   \* run_wled_beacons: trail_length
    fade_factor,    \* run_wled_beacons: fade_factor
    update_interval,    \* run_wled_beacons: update_interval
    positions,      \* BeaconRunner.positions: beacon_id -> index
    loop,       \* run_wled_beacons: its position and its locals
    bufs,       \* the list objects built as `leds`: reference -> pixels
    sink,       \* the controller: its kind and the calls of update it got
    call,       \* the add_trail call made last: arguments, buffer before, outcome
    runner,     \* the BeaconRunner: built or not, and its calls of next_position
    sim,        \* cli_simulator.main: its position and its locals
    startup,    \* main.main: how far it got, and what config.validate() raised
    mapped,     \* the ble_beacon_to_rgb calls made last: arguments and colors
    stats       \* MQTTStatistics: its fields, its lock and the calls made on it

config == <<timeout, fade_out, location>>
display ==
    <<led_count, trail_length, fade_factor, update_interval, positions, loop, bufs,
      sink, call, runner, sim, startup, mapped, stats>>
app == <<sim, startup, mapped, stats>>
registry == <<clock, timeout, fade_out, location, beacons, lock, frame, heap, held, hist>>
vars == <<clock, timeout, fade_out, location, beacons, lock, frame, heap, held, hist,
          led_count, trail_length, fade_factor, update_interval, positions, loop,
          bufs, sink, call, runner, sim, startup, mapped, stats>>

\* ---- exact fractions (the floats of the source) ----
Abs(x) == IF x < 0 THEN -x ELSE x

RECURSIVE Gcd(_, _)
Gcd(a, b) == IF b = 0 THEN a ELSE Gcd(b, a % b)

Rat(n, d) ==
    LET g == Gcd(Abs(n), Abs(d))
        s == IF d < 0 THEN -1 ELSE 1
    IN  <<(s * n) \div g, (s * d) \div g>>

Zero == Rat(0, 1)
One == Rat(1, 1)
RatLeq(x, y) == x[1] * y[2] <= y[1] * x[2]
RatLt(x, y) == x[1] * y[2] < y[1] * x[2]
RatSub(x, y) == Rat(x[1] * y[2] - y[1] * x[2], x[2] * y[2])
RatMax(x, y) == IF RatLeq(x, y) THEN y ELSE x

\* ---- dict helpers ----
EmptyDict == [k \in {} |-> 0]
DictSet(d, k, v) == [x \in (DOMAIN d) \cup {k} |-> IF x = k THEN v ELSE d[x]]
DictDel(d, ks) == [x \in (DOMAIN d) \ ks |-> d[x]]

\* ---- BeaconState ----

\* the record update() stores: {"rssi": rssi, "last_seen": now, "life": 1.0}
NewRecord(rssi, now) == [rssi |-> rssi, last_seen |-> now, life |-> One]

\* mutants of Stored: an update that refreshes only the rssi of a known
\* beacon, and one that keeps the first rssi it was given
Stored_KeepLastSeen(d, id, rssi, now) ==
    IF id \in DOMAIN d THEN [d EXCEPT ![id].rssi = rssi]
    ELSE DictSet(d, id, NewRecord(rssi, now))
Stored_FirstWriteWins(d, id, rssi, now) ==
    IF id \in DOMAIN d THEN [d EXCEPT ![id].last_seen = now, ![id].life = One]
    ELSE DictSet(d, id, NewRecord(rssi, now))

\* update(), lines 71-75: self._beacons[beacon_id] = {...}
Stored(d, id, rssi, now) == DictSet(d, id, NewRecord(rssi, now))

\* snapshot(): decay = (age - self.timeout) / self.fade_out, a ZeroDivisionError
\* when fade_out is 0
DecayRaises(age) == age > timeout /\ fade_out = 0

\* mutant of Life: the decay counted from last_seen, not from the timeout
Life_FromLastSeen(age) ==
    IF age <= timeout
    THEN One
    ELSE RatMax(Zero, RatSub(One, Rat(age, fade_out)))

\* mutant of Life: the value grows with the age
Life_Grows(age) ==
    IF age <= timeout
    THEN One
    ELSE RatMax(Zero, RatSub(One, Rat(timeout - age, fade_out)))

\* snapshot(): the value written to data["life"] for a record of this age
Life(age) ==
    IF age <= timeout
    THEN One
    ELSE RatMax(Zero, RatSub(One, Rat(age - timeout, fade_out)))

\* mutant of Expired: no record is ever marked for removal
Expired_Never(life) == FALSE

\* mutant of Expired: if data["life"] < 0.0
Expired_Strict(life) == RatLt(life, Zero)

\* snapshot(), line 112: if data["life"] <= 0.0
Expired(life) == RatLeq(life, Zero)

\* mutant of LockFree: the with block entered without waiting for the lock
LockFree_NoLock == TRUE

\* `with self._lock:` can be entered
LockFree == lock = NoOwner

\* mutant of LockAfterRaise: the lock stays with the call that raised
LockAfterRaise_Held(t) == t

\* snapshot, line 100: an exception leaves the with block, whose exit
\* releases the lock
LockAfterRaise(t) == NoOwner

\* snapshot(), line 98: active = {} is a new dict object
FreshRef ==
    CHOOSE r \in ObjRefs :
        /\ r \notin held \cup {frame[t].active : t \in Threads}
        /\ \A q \in ObjRefs :
              q \notin held \cup {frame[t].active : t \in Threads} => r <= q

\* mutant of ResultRef: return self._beacons
ResultRef_Registry(t) == RegistryRef

\* snapshot(), line 120: return active
ResultRef(t) == frame[t].active

\* the dict a reference denotes
Deref(r) == IF r = RegistryRef THEN beacons ELSE heap[r]

\* the dict snapshot() is building, or has just returned, in thread t
Active(t) == heap[frame[t].active]

\* no message: the frame of a thread that is not inside on_message
NoValue == [t |-> "absent", s |-> "", n |-> 0]
NoMsg ==
    [topic |-> <<>>,
     payload |-> [kind |-> "none", id |-> NoValue, rssi |-> NoValue, extra |-> FALSE]]

IdleFrame ==
    [pc |-> "idle", caller |-> "api", now |-> 0, beacon_id |-> "", rssi |-> 0,
     active |-> NullRef, to_remove |-> {}, todo |-> {}, seen |-> EmptyDict,
     msg |-> NoMsg, outcome |-> "", exc |-> "", warned |-> 0, parsed |-> FALSE,
     calls |-> <<>>, before |-> EmptyDict]

\* history: what an update call found for the beacon it is about to overwrite
Prior(d, id, now) ==
    IF id \notin DOMAIN d THEN "unknown"
    ELSE IF now - d[id].last_seen <= timeout THEN "visible"
    ELSE IF now - d[id].last_seen - timeout < fade_out THEN "fading"
    ELSE "expired"

\* update(beacon_id, rssi), line 69: now = time.time()
UpdateCall(t, id, rssi) ==
    /\ frame[t].pc = "idle"
    /\ frame' = [frame EXCEPT ![t] =
                    [IdleFrame EXCEPT !.pc = "upd_wait", !.now = clock,
                                      !.beacon_id = id, !.rssi = rssi]]
    /\ UNCHANGED <<clock, config, beacons, lock, heap, held, hist, display>>

\* update, line 70: with self._lock.  seen keeps the records as the call
\* found them.
UpdAcquire(t) ==
    /\ frame[t].pc = "upd_wait"
    /\ LockFree
    /\ lock' = t
    /\ frame' = [frame EXCEPT ![t].pc = "upd_cs", ![t].seen = beacons]
    /\ UNCHANGED <<clock, config, beacons, heap, held, hist, display>>

\* update, lines 71-75: self._beacons[beacon_id] = {...}
UpdStore(t) ==
    /\ frame[t].pc = "upd_cs"
    /\ beacons' = Stored(beacons, frame[t].beacon_id, frame[t].rssi, frame[t].now)
    /\ hist' = DictSet(hist, frame[t].beacon_id,
                       [rssi |-> frame[t].rssi, at |-> frame[t].now,
                        prior |-> Prior(beacons, frame[t].beacon_id, frame[t].now)])
    /\ frame' = [frame EXCEPT ![t].pc = "upd_release"]
    /\ UNCHANGED <<clock, config, lock, heap, held, display>>

\* update: the end of the with block, and the return to the caller: the
\* program's caller, on_message, or StatisticsTrackingBeaconState.update
UpdRelease(t) ==
    /\ frame[t].pc = "upd_release"
    /\ lock' = NoOwner
    /\ frame' = [frame EXCEPT ![t] =
                    IF frame[t].caller = "api" THEN IdleFrame
                    ELSE IF frame[t].caller = "tracked"
                    THEN [@ EXCEPT !.pc = "upd_done", !.seen = EmptyDict]
                    ELSE [@ EXCEPT !.pc = "om_done", !.seen = EmptyDict]]
    /\ UNCHANGED <<clock, config, beacons, heap, held, hist, display>>

\* snapshot(), lines 97-98: now = time.time(); active = {}
SnapCall(t) ==
    /\ frame[t].pc = "idle"
    /\ frame' = [frame EXCEPT ![t] =
                    [IdleFrame EXCEPT !.pc = "snap_wait", !.now = clock,
                                      !.active = FreshRef]]
    /\ heap' = [heap EXCEPT ![FreshRef] = EmptyDict]
    /\ UNCHANGED <<clock, config, beacons, lock, held, hist, display>>

\* snapshot, lines 100-103: with self._lock; to_remove = []; the loop starts
SnapAcquire(t) ==
    /\ frame[t].pc = "snap_wait"
    /\ LockFree
    /\ lock' = t
    /\ frame' = [frame EXCEPT ![t].pc = "snap_iter",
                              ![t].todo = DOMAIN beacons,
                              ![t].seen = beacons]
    /\ UNCHANGED <<clock, config, beacons, heap, held, hist, display>>

\* snapshot, lines 103-115: one pass of the loop body, for the record of id.
\* The passes are taken in any order: the returned dict and the deletions do
\* not depend on it.
SnapIter(t) ==
    /\ frame[t].pc = "snap_iter"
    /\ \E id \in frame[t].todo \cap DOMAIN beacons :
        LET data == beacons[id]
            age == frame[t].now - data.last_seen
        IN  IF DecayRaises(age)
            THEN /\ lock' = LockAfterRaise(t)
                 /\ frame' = [frame EXCEPT ![t].pc = "snap_raised"]
                 /\ UNCHANGED <<beacons, heap>>
            ELSE LET life == Life(age) IN
                 /\ beacons' = [beacons EXCEPT ![id].life = life]
                 /\ frame' = [frame EXCEPT
                        ![t].todo = @ \ {id},
                        ![t].to_remove =
                            IF Expired(life) THEN @ \cup {id} ELSE @]
                 /\ heap' = IF Expired(life) THEN heap
                            ELSE [heap EXCEPT ![frame[t].active] =
                                     DictSet(@, id, <<data.rssi, life>>)]
                 /\ UNCHANGED lock
    /\ UNCHANGED <<clock, config, held, hist, display>>

\* snapshot, lines 117-118: for beacon_id in to_remove: del self._beacons[...]
SnapRemove(t) ==
    /\ frame[t].pc = "snap_iter"
    /\ frame[t].todo = {}
    /\ beacons' = DictDel(beacons, frame[t].to_remove)
    /\ hist' = DictDel(hist, frame[t].to_remove)
    /\ frame' = [frame EXCEPT ![t].pc = "snap_release"]
    /\ UNCHANGED <<clock, config, lock, heap, held, display>>

\* snapshot: the end of the with block
SnapRelease(t) ==
    /\ frame[t].pc = "snap_release"
    /\ lock' = NoOwner
    /\ frame' = [frame EXCEPT ![t].pc = "snap_done"]
    /\ UNCHANGED <<clock, config, beacons, heap, held, hist, display>>

\* snapshot, line 120: return active, to a caller that drops the result (or
\* the ZeroDivisionError leaves the call)
SnapReturn(t) ==
    /\ frame[t].pc \in {"snap_done", "snap_raised"}
    /\ heap' = [heap EXCEPT ![frame[t].active] = EmptyDict]
    /\ frame' = [frame EXCEPT ![t] = IdleFrame]
    /\ UNCHANGED <<clock, config, beacons, lock, held, hist, display>>

\* time passes
Tick ==
    /\ clock < MaxTime
    /\ clock' = clock + 1
    /\ UNCHANGED <<config, beacons, lock, frame, heap, held, hist, display>>

\* ---- the display: the values of run_wled_beacons and of what it calls ----

\* a pixel [R, G, B], and the list run_wled_beacons builds at line 119:
\* [[0, 0, 0] for _ in range(led_count)], indexed from 0 as in the source
Black == <<0, 0, 0>>
FreshLeds(n) == [i \in 0..(n - 1) |-> Black]
NumLeds(leds) == Cardinality(DOMAIN leds)

\* the list objects: one reference per list built, NoBuf before the first
NoBuf == 0
BufRefs == 1..(MaxFrames + 1)
NoLeds == FreshLeds(0)

\* no add_trail call made yet
NoCall ==
    [n |-> 0, leds |-> NoBuf, before |-> NoLeds, position |-> 0, color |-> Black,
     trail_length |-> 0, fade_factor |-> One, outcome |-> "", documented |-> TRUE]

\* run_wled_beacons not called
\* pc, leds and items are the position and the locals of the function; the
\* other fields are history of the tick it is in: the dict snapshot() returned
\* and the registry it was taken from, the cursors at the top of the tick, the
\* beacons painted, the slots written, the calls of snapshot, update and sleep;
\* and of the run so far: the beacons its snapshots have removed from the
\* registry.  ticks is the number of ticks the model follows the loop for.
LoopOff ==
    [pc |-> "off", leds |-> NoBuf, items |-> EmptyDict, tick |-> 0,
     snap |-> EmptyDict, seen |-> EmptyDict, cursors |-> EmptyDict,
     painted |-> {}, slots |-> {}, snaps |-> 0, sent |-> 0, slept |-> <<>>,
     exc |-> "", gone |-> {}, ticks |-> MaxFrames]

\* no call of update yet: no list handed over
NoFrame == [leds |-> NoBuf, pixels |-> NoLeds, tick |-> 0, painted |-> {}]

\* a controller that got no call of update: its kind ("udp", "http"),
\* max_retries, the attempt of the call of update it is in, and history: the
\* list the last call of update was given (the object and its pixels at the
\* call), the POSTs, datagrams and sleeps of that call, the POSTs of it that
\* failed, how it ended ("sent", "dropped", "raised"), the datagram it sent,
\* what each POST of it did, and whether the transport has failed in any call
NoSink ==
    [kind |-> "none", max_retries |-> 0, attempt |-> 0, last |-> NoFrame,
     posts |-> 0, datagrams |-> 0, sleeps |-> 0, failed |-> FALSE,
     failures |-> 0, outcome |-> "", packet |-> <<>>, results |-> <<>>]

\* no BeaconRunner built.  built, and history: per identity the number of
\* next_position calls made, and of the call made last the identity, the
\* cursors before it, the value returned and the exception raised
NoRunner ==
    [built |-> FALSE, calls |-> EmptyDict, id |-> "", prior |-> EmptyDict,
     returned |-> -1, exc |-> ""]

\* the duration argument of cli_simulator.main: None, or a number of seconds
NoDuration == [given |-> FALSE, secs |-> 0]
Seconds(d) == [given |-> TRUE, secs |-> d]

\* cli_simulator.main not called.  pc, duration, start_time and frame_count
\* are its position and its locals; history: the elapsed time its last check
\* of the duration saw, and the calls of beacon_state.update it has made
NoSim ==
    [pc |-> "off", duration |-> NoDuration, start_time |-> 0, frame_count |-> 0,
     elapsed |-> 0, generated |-> 0]

\* main.main before config.validate() is called
NoStartup == [pc |-> "off", exc |-> "", what |-> ""]

\* no ble_beacon_to_rgb call made yet.  Of the call made last: the arguments
\* and the color returned; and the same of the call made before it.  Of the
\* gradient_color call made last: the arguments and the triple returned.
NoColor ==
    [n |-> 0, id |-> "", rssi |-> 0, life |-> Zero, color |-> Black,
     prev_id |-> "", prev_rssi |-> 0, prev_life |-> Zero, prev_color |-> Black,
     graded |-> FALSE, distance |-> Zero, near |-> Zero, far |-> One,
     gradient |-> <<Zero, Zero, Zero>>]

\* the program without its display
\* an MQTTStatistics on which nothing was called: total_messages,
\* messages_by_beacon, the owner of self.lock, per thread the call it is in
\* (its position, its beacon_id and the values it has read), and history:
\* the record_message calls started and returned, and what the last
\* get_stats returned
NoStats ==
    [total |-> 0, by_beacon |-> EmptyDict, lock |-> NoOwner,
     frame |-> [t \in Threads |-> [pc |-> "idle", id |-> "", read |-> 0]],
     started |-> 0, returned |-> 0,
     got |-> [given |-> FALSE, total |-> 0, by_beacon |-> EmptyDict]]

DisplayOff ==
    /\ led_count = 1
    /\ trail_length = 0
    /\ fade_factor = One
    /\ update_interval = One
    /\ positions = EmptyDict
    /\ loop = LoopOff
    /\ bufs = [r \in BufRefs |-> NoLeds]
    /\ sink = NoSink
    /\ call = NoCall
    /\ runner = NoRunner
    /\ sim = NoSim
    /\ startup = NoStartup
    /\ mapped = NoColor
    /\ stats = NoStats

\* BeaconState(timeout_seconds, fade_out_seconds) with durations as
\* documented: a timeout of 0 or more and a fade-out longer than 0
Init ==
    /\ clock = 0
    /\ timeout \in 0..MaxTimeout
    /\ fade_out \in 1..MaxFadeOut
    /\ location = DefaultLocation
    /\ beacons = EmptyDict
    /\ lock = NoOwner
    /\ frame = [t \in Threads |-> IdleFrame]
    /\ heap = [r \in ObjRefs |-> EmptyDict]
    /\ held = {}
    /\ hist = EmptyDict
    /\ DisplayOff

\* ---- one caller: the registry's contract, call by call ----
Next ==
    \/ Tick
    \/ \E id \in BeaconIds, rssi \in RssiValues : UpdateCall("main", id, rssi)
    \/ UpdAcquire("main")
    \/ UpdStore("main")
    \/ UpdRelease("main")
    \/ SnapCall("main")
    \/ SnapAcquire("main")
    \/ SnapIter("main")
    \/ SnapRemove("main")
    \/ SnapRelease("main")
    \/ SnapReturn("main")

Spec == Init /\ [][Next]_vars

\* ---- one caller, and a fade-out of 0 among the durations ----

\* BeaconState(timeout_seconds, fade_out_seconds) with every duration of 0 or
\* more, all of which Config.validate() accepts
InitDecay ==
    /\ clock = 0
    /\ timeout \in 0..MaxTimeout
    /\ fade_out \in 0..MaxFadeOut
    /\ location = DefaultLocation
    /\ beacons = EmptyDict
    /\ lock = NoOwner
    /\ frame = [t \in Threads |-> IdleFrame]
    /\ heap = [r \in ObjRefs |-> EmptyDict]
    /\ held = {}
    /\ hist = EmptyDict
    /\ DisplayOff

SpecDecay == InitDecay /\ [][Next]_vars

\* ---- two threads on one registry ----
ConcCalls == {<<"a", -50>>, <<"a", -60>>, <<"b", -50>>}

TickConc == clock < ConcMaxTime /\ Tick

NextConc ==
    \/ TickConc
    \/ \E t \in Threads, c \in ConcCalls : UpdateCall(t, c[1], c[2])
    \/ \E t \in Threads : UpdAcquire(t)
    \/ \E t \in Threads : UpdStore(t)
    \/ \E t \in Threads : UpdRelease(t)
    \/ \E t \in Threads : SnapCall(t)
    \/ \E t \in Threads : SnapAcquire(t)
    \/ \E t \in Threads : SnapIter(t)
    \/ \E t \in Threads : SnapRemove(t)
    \/ \E t \in Threads : SnapRelease(t)
    \/ \E t \in Threads : SnapReturn(t)

\* ---- two threads on one registry, scheduled fairly ----

\* BeaconState with a fade-out of 0 as well, with which snapshot raises
InitFair ==
    /\ clock = 0
    /\ timeout = 0
    /\ fade_out \in 0..1
    /\ location = DefaultLocation
    /\ beacons = EmptyDict
    /\ lock = NoOwner
    /\ frame = [t \in Threads |-> IdleFrame]
    /\ heap = [r \in ObjRefs |-> EmptyDict]
    /\ held = {}
    /\ hist = EmptyDict
    /\ DisplayOff

\* the steps of a call of thread t that wait for nothing
Running(t) ==
    \/ UpdStore(t)
    \/ UpdRelease(t)
    \/ SnapIter(t)
    \/ SnapRemove(t)
    \/ SnapRelease(t)
    \/ SnapReturn(t)

\* a thread that can run takes its next step: a running call goes on, and
\* a call waiting for a lock that stays free gets it.  threading.Lock
\* promises no order among waiters: a waiter that finds the lock taken
\* whenever it is scheduled is promised nothing.
Fairness ==
    \A t \in Threads :
        /\ WF_vars(Running(t))
        /\ WF_vars(UpdAcquire(t))
        /\ WF_vars(SnapAcquire(t))

\* the ingest thread updates one beacon; either thread takes snapshots
NextFair ==
    \/ TickConc
    \/ \E t \in Threads : UpdateCall(t, "a", -50)
    \/ \E t \in Threads : UpdAcquire(t)
    \/ \E t \in Threads : UpdStore(t)
    \/ \E t \in Threads : UpdRelease(t)
    \/ \E t \in Threads : SnapCall(t)
    \/ \E t \in Threads : SnapAcquire(t)
    \/ \E t \in Threads : SnapIter(t)
    \/ \E t \in Threads : SnapRemove(t)
    \/ \E t \in Threads : SnapRelease(t)
    \/ \E t \in Threads : SnapReturn(t)

SpecFair == InitFair /\ [][NextFair]_vars /\ Fairness

\* the configurations under which a beacon can expire before the clock stops
InitConc == Init /\ timeout + fade_out <= ConcMaxTime

SpecConc == InitConc /\ [][NextConc]_vars

\* ---- a caller that keeps the dicts snapshot() returned ----

\* snapshot, line 120: return active, to a caller that keeps the result
SnapReturnKeep(t) ==
    /\ frame[t].pc = "snap_done"
    /\ Cardinality(held) < MaxHeld
    /\ held' = held \cup {ResultRef(t)}
    /\ heap' = [heap EXCEPT ![frame[t].active] =
                    IF ResultRef(t) = frame[t].active THEN @ ELSE EmptyDict]
    /\ frame' = [frame EXCEPT ![t] = IdleFrame]
    /\ UNCHANGED <<clock, config, beacons, lock, hist, display>>

\* the caller lets go of a dict it kept
Drop(t, r) ==
    /\ frame[t].pc = "idle"
    /\ r \in held
    /\ held' = held \ {r}
    /\ heap' = IF r = RegistryRef THEN heap ELSE [heap EXCEPT ![r] = EmptyDict]
    /\ UNCHANGED <<clock, config, beacons, lock, frame, hist, display>>

\* the caller modifies a dict it kept: del snap[id]
CallerMutate(t, r, id) ==
    /\ frame[t].pc = "idle"
    /\ r \in held
    /\ id \in DOMAIN Deref(r)
    /\ IF r = RegistryRef
       THEN beacons' = DictDel(beacons, {id}) /\ UNCHANGED heap
       ELSE heap' = [heap EXCEPT ![r] = DictDel(@, {id})] /\ UNCHANGED beacons
    /\ UNCHANGED <<clock, config, lock, frame, held, hist, display>>

NextAlias ==
    \/ TickConc
    \/ \E c \in ConcCalls : UpdateCall("main", c[1], c[2])
    \/ UpdAcquire("main")
    \/ UpdStore("main")
    \/ UpdRelease("main")
    \/ SnapCall("main")
    \/ SnapAcquire("main")
    \/ SnapIter("main")
    \/ SnapRemove("main")
    \/ SnapRelease("main")
    \/ SnapReturn("main")
    \/ SnapReturnKeep("main")
    \/ \E r \in ObjRefs : Drop("main", r)
    \/ \E r \in ObjRefs, id \in BeaconIds : CallerMutate("main", r, id)

SpecAlias == InitConc /\ [][NextAlias]_vars

\* ---- EspresenseBeaconListener.on_message ----

\* A JSON value as json.loads gives it: [t, s, n] with t its type, s the text
\* of a string, n the value of a number in hundredths (of a list: its
\* length).  "absent" is a key the object does not have.
JAbsent == NoValue
JNull == [t |-> "null", s |-> "", n |-> 0]
JStr(str) == [t |-> "str", s |-> str, n |-> 0]
JNum(h) == [t |-> "num", s |-> "", n |-> h]
JInf == [t |-> "inf", s |-> "", n |-> 0]
JNan == [t |-> "nan", s |-> "", n |-> 0]
JList == [t |-> "list", s |-> "", n |-> 0]

\* the payloads: bytes that are not UTF-8, text that is not JSON, JSON that is
\* an array or a scalar, and JSON objects
IdValues == {JAbsent, JNull, JStr("a"), JStr("b"), JStr(""), JNum(100)}
RssiJson ==
    {JAbsent, JNull, JNum(-5050), JNum(-8477), JNum(0),
     JStr("-50"), JStr("abc"), JInf, JNan, JList}
Payloads ==
    [kind : {"undecodable", "badjson", "array", "scalar"},
     id : {NoValue}, rssi : {NoValue}, extra : {FALSE}]
    \cup [kind : {"object"}, id : IdValues, rssi : RssiJson, extra : BOOLEAN]

\* the topics, split at "/"
Topics ==
    {<<"espresense", "devices", id, loc>> : id \in {"a", ""}, loc \in Locations}
    \cup {<<"">>, <<"espresense", "devices">>, <<"root", "a", "balkon">>,
          <<"x", "espresense", "devices", "a", "balkon">>}

Messages == [topic : Topics, payload : Payloads]

\* payload.get(key): None for a missing key and for null
IsNone(v) == v.t \in {"absent", "null"}

\* the truth value Python gives a JSON value (`not beacon_id_payload`)
Truthy(v) ==
    CASE v.t \in {"absent", "null"} -> FALSE
      [] v.t = "str" -> v.s # ""
      [] v.t \in {"num", "list"} -> v.n # 0
      [] OTHER -> TRUE

\* mutant of Trunc: math.floor
Trunc_Floor(h) == h \div 100

\* int(x) of a float: truncation toward zero
Trunc(h) == IF h >= 0 THEN h \div 100 ELSE -((-h) \div 100)

\* int(s) of a str: the strings that are integer literals
IntLiterals == {"-50"}
IntOfLiteral(str) == -50

\* the exception int(rssi) raises, "" when it raises none
IntRaises(v) ==
    CASE v.t = "num" -> ""
      [] v.t = "str" -> IF v.s \in IntLiterals THEN "" ELSE "ValueError"
      [] v.t = "inf" -> "OverflowError"
      [] v.t = "nan" -> "ValueError"
      [] OTHER -> "TypeError"

\* int(rssi)
IntOf(v) == IF v.t = "num" THEN Trunc(v.n) ELSE IntOfLiteral(v.s)

\* mutants of the checks: a topic of 3 segments let through, no location
\* filter, no comparison of the payload id with the topic
TopicOk_Three(parts) == Len(parts) >= 3
LocationMatches_Any(loc) == TRUE
IdMatches_Skipped(v, beacon_id) == TRUE

\* line 172: if len(topic_parts) < 4: return
TopicOk(parts) == Len(parts) >= 4

\* line 179: if location != self.location: return
LocationMatches(loc) == loc = location

\* line 197: if beacon_id_payload != beacon_id
IdMatches(v, beacon_id) == v.t = "str" /\ v.s = beacon_id

\* the exceptions the handler catches (lines 208-211)
Caught == {"JSONDecodeError", "IndexError", "KeyError", "TypeError"}

\* on_message, lines 169-211, up to the call of self.state.update:
\* [kind, exc, id, rssi, warned, parsed]
Outcome(kind, exc, id, rssi, warned, parsed) ==
    [kind |-> kind, exc |-> exc, id |-> id, rssi |-> rssi,
     warned |-> warned, parsed |-> parsed]

\* an exception raised inside the try block
Raise(exc) ==
    IF exc \in Caught
    THEN Outcome("return", "", "", 0, 1, TRUE)
    ELSE Outcome("raise", exc, "", 0, 0, TRUE)

OnMessageOutcome(msg) ==
    LET parts == msg.topic
        n == Len(parts)
        payload == msg.payload
    IN  IF ~TopicOk(parts) THEN Outcome("return", "", "", 0, 0, FALSE)
        ELSE IF ~LocationMatches(parts[n]) THEN Outcome("return", "", "", 0, 0, FALSE)
        ELSE IF payload.kind = "undecodable" THEN Raise("UnicodeDecodeError")
        ELSE IF payload.kind = "badjson" THEN Raise("JSONDecodeError")
        ELSE IF payload.kind # "object" THEN Raise("AttributeError")
        ELSE IF ~Truthy(payload.id) \/ IsNone(payload.rssi)
             THEN Outcome("return", "", "", 0, 1, TRUE)
        ELSE IF ~IdMatches(payload.id, parts[n - 1])
             THEN Outcome("return", "", "", 0, 1, TRUE)
        ELSE IF IntRaises(payload.rssi) # "" THEN Raise(IntRaises(payload.rssi))
        ELSE Outcome("update", "", parts[n - 1], IntOf(payload.rssi), 0, TRUE)

\* the MQTT client's loop calls on_message(client, userdata, msg)
Deliver(t, msg) ==
    /\ frame[t].pc = "idle"
    /\ frame' = [frame EXCEPT ![t] =
                    [IdleFrame EXCEPT !.pc = "on_message", !.caller = "on_message",
                                      !.msg = msg, !.before = beacons]]
    /\ UNCHANGED <<clock, config, beacons, lock, heap, held, hist, display>>

\* on_message, lines 169-211; line 206 enters update() (its line 69)
OnMessage(t) ==
    /\ frame[t].pc = "on_message"
    /\ LET o == OnMessageOutcome(frame[t].msg) IN
        frame' = [frame EXCEPT ![t] =
            IF o.kind = "update"
            THEN [@ EXCEPT !.pc = "upd_wait", !.now = clock, !.beacon_id = o.id,
                           !.rssi = o.rssi, !.parsed = o.parsed,
                           !.calls = <<<<o.id, o.rssi>>>>, !.outcome = "returned"]
            ELSE [@ EXCEPT !.pc = "om_done", !.parsed = o.parsed,
                           !.warned = o.warned, !.exc = o.exc,
                           !.outcome = IF o.kind = "raise" THEN "raised"
                                       ELSE "returned"]]
    /\ UNCHANGED <<clock, config, beacons, lock, heap, held, hist, display>>

\* on_message returns to the client's loop, or its exception reaches the loop
OmReturn(t) ==
    /\ frame[t].pc = "om_done"
    /\ frame' = [frame EXCEPT ![t] = IdleFrame]
    /\ UNCHANGED <<clock, config, beacons, lock, heap, held, hist, display>>

InitIngest ==
    /\ clock = 0
    /\ timeout = MaxTimeout
    /\ fade_out = MaxFadeOut
    /\ location \in Locations
    /\ beacons = EmptyDict
    /\ lock = NoOwner
    /\ frame = [t \in Threads |-> IdleFrame]
    /\ heap = [r \in ObjRefs |-> EmptyDict]
    /\ held = {}
    /\ hist = EmptyDict
    /\ DisplayOff

NextIngest ==
    \/ TickConc
    \/ \E msg \in Messages : Deliver("mqtt", msg)
    \/ OnMessage("mqtt")
    \/ UpdAcquire("mqtt")
    \/ UpdStore("mqtt")
    \/ UpdRelease("mqtt")
    \/ OmReturn("mqtt")

SpecIngest == InitIngest /\ [][NextIngest]_vars

\* ---- a message handled, then a snapshot taken (tests/test_mqtt.py) ----

\* the payload {"id": "a", "rssi": -50} and the same with rssi -60.5
ScenarioPayloads ==
    [kind : {"object"}, id : {JStr("a")}, rssi : {JNum(-5000), JNum(-6050)},
     extra : {FALSE}]

\* root/a/balkon, root/devices/a/balkon and a topic of the other location
ScenarioTopics ==
    {<<"root", "a", "balkon">>, <<"root", "devices", "a", "balkon">>,
     <<"root", "devices", "a", "kitchen">>}

ScenarioMessages == [topic : ScenarioTopics, payload : ScenarioPayloads]

\* the caller takes its snapshot once on_message has run to its end
ScenarioSnapCall ==
    /\ frame["mqtt"].pc = "om_done"
    /\ SnapCall("main")

\* the next message is delivered once the caller has its snapshot
ScenarioOmReturn ==
    /\ frame["main"].pc = "idle"
    /\ OmReturn("mqtt")

InitScenario ==
    /\ clock = 0
    /\ timeout \in 0..MaxTimeout
    /\ fade_out \in 1..MaxFadeOut
    /\ location \in Locations
    /\ beacons = EmptyDict
    /\ lock = NoOwner
    /\ frame = [t \in Threads |-> IdleFrame]
    /\ heap = [r \in ObjRefs |-> EmptyDict]
    /\ held = {}
    /\ hist = EmptyDict
    /\ DisplayOff

NextScenario ==
    \/ Tick
    \/ \E msg \in ScenarioMessages : Deliver("mqtt", msg)
    \/ OnMessage("mqtt")
    \/ UpdAcquire("mqtt")
    \/ UpdStore("mqtt")
    \/ UpdRelease("mqtt")
    \/ ScenarioOmReturn
    \/ ScenarioSnapCall
    \/ SnapAcquire("main")
    \/ SnapIter("main")
    \/ SnapRemove("main")
    \/ SnapRelease("main")
    \/ SnapReturn("main")

SpecScenario == InitScenario /\ [][NextScenario]_vars

\* ---- add_trail (animation.py) ----

\* arithmetic of fractions, left unreduced
RatAdd(x, y) == <<x[1] * y[2] + y[1] * x[2], x[2] * y[2]>>
RatMul(x, y) == <<x[1] * y[1], x[2] * y[2]>>

Min(a, b) == IF a <= b THEN a ELSE b

\* ---- the floats of add_trail: IEEE 754 doubles, rounded to nearest even ----

\* the base of the digits of a mantissa, 2^14, and its width in bits
Limb == 16384
LimbBits == 14

\* a natural number is the sequence of its digits to the base Limb, the
\* lowest first, without a leading zero; digit i of a, 0 beyond its ends
BnDigit(a, i) == IF i >= 1 /\ i <= Len(a) THEN a[i] ELSE 0

\* a without leading zeros
RECURSIVE BnNorm(_)
BnNorm(a) ==
    IF a = <<>> \/ a[Len(a)] # 0 THEN a ELSE BnNorm(SubSeq(a, 1, Len(a) - 1))

RECURSIVE BnFromInt(_)
BnFromInt(n) == IF n = 0 THEN <<>> ELSE <<n % Limb>> \o BnFromInt(n \div Limb)

RECURSIVE BnToInt(_)
BnToInt(a) == IF a = <<>> THEN 0 ELSE Head(a) + Limb * BnToInt(Tail(a))

\* every digit keeps its part below Limb and takes the carry (or the borrow,
\* a negative carry) of the digit below
BnCarry(d) ==
    [i \in 1..(Len(d) + 1) |->
        (BnDigit(d, i) % Limb) + (BnDigit(d, i - 1) \div Limb)]

\* the number a sequence of integers stands for, carries passed on until
\* every digit is one
RECURSIVE BnCarried(_)
BnCarried(d) ==
    IF \A i \in 1..Len(d) : d[i] >= 0 /\ d[i] < Limb THEN BnNorm(d)
    ELSE BnCarried(BnCarry(d))

BnAdd(a, b) ==
    BnCarried([i \in 1..(IF Len(a) >= Len(b) THEN Len(a) ELSE Len(b)) |->
                  BnDigit(a, i) + BnDigit(b, i)])

\* a - b, for a >= b
BnSub(a, b) == BnCarried([i \in 1..Len(a) |-> a[i] - BnDigit(b, i)])

\* -1, 0 or 1 as a is below, equal to or above b: by the highest digit they
\* differ in
BnCmp(a, b) ==
    LET differ == {i \in 1..(Len(a) + Len(b)) : BnDigit(a, i) # BnDigit(b, i)}
        top == CHOOSE i \in differ : \A j \in differ : j <= i
    IN  IF differ = {} THEN 0
        ELSE IF BnDigit(a, top) < BnDigit(b, top) THEN -1 ELSE 1

\* a * b, for b of at most four digits (a double's 53 binary digits)
BnMul(a, b) ==
    BnCarried([k \in 1..(Len(a) + 3) |->
                  BnDigit(a, k) * BnDigit(b, 1)
                  + BnDigit(a, k - 1) * BnDigit(b, 2)
                  + BnDigit(a, k - 2) * BnDigit(b, 3)
                  + BnDigit(a, k - 3) * BnDigit(b, 4)])

\* a^i, for a of at most four digits
RECURSIVE BnPow(_, _)
BnPow(a, i) == IF i = 0 THEN <<1>> ELSE BnMul(BnPow(a, i - 1), a)

\* the quotient of a by k, for 0 < k < Limb, from digit i down with the
\* remainder so far
RECURSIVE BnDivSmallFrom(_, _, _, _)
BnDivSmallFrom(a, k, i, rem) ==
    IF i = 0 THEN <<>>
    ELSE LET t == rem * Limb + a[i]
         IN  BnDivSmallFrom(a, k, i - 1, t % k) \o <<t \div k>>

BnDivSmall(a, k) == BnNorm(BnDivSmallFrom(a, k, Len(a), 0))

RECURSIVE BnModSmallFrom(_, _, _, _)
BnModSmallFrom(a, k, i, rem) ==
    IF i = 0 THEN rem ELSE BnModSmallFrom(a, k, i - 1, (rem * Limb + a[i]) % k)

BnModSmall(a, k) == BnModSmallFrom(a, k, Len(a), 0)

\* 2^n, for n < 31
RECURSIVE Pow2(_)
Pow2(n) == IF n = 0 THEN 1 ELSE 2 * Pow2(n - 1)

\* a * 2^n
BnShl(a, n) ==
    LET w == n \div LimbBits
        r == n % LimbBits
    IN  BnNorm([i \in 1..(Len(a) + w + 1) |->
                   (BnDigit(a, i - w) % Pow2(LimbBits - r)) * Pow2(r)
                   + (BnDigit(a, i - w - 1) \div Pow2(LimbBits - r))])

\* a div 2^n
BnShr(a, n) ==
    LET w == n \div LimbBits
        r == n % LimbBits
    IN  BnNorm([i \in 1..Len(a) |->
                   (BnDigit(a, i + w) \div Pow2(r))
                   + (BnDigit(a, i + w + 1) % Pow2(r)) * Pow2(LimbBits - r)])

\* a mod 2^n
BnLow(a, n) ==
    LET w == n \div LimbBits
        r == n % LimbBits
    IN  BnNorm([i \in 1..Min(Len(a), w + 1) |->
                   IF i <= w THEN a[i] ELSE a[i] % Pow2(r)])

\* the binary digit of a that counts 2^n
BnBit(a, n) == (BnDigit(a, n \div LimbBits + 1) \div Pow2(n % LimbBits)) % 2

\* the number of binary digits
RECURSIVE BitLen(_)
BitLen(n) == IF n = 0 THEN 0 ELSE 1 + BitLen(n \div 2)

BnBitLen(a) == IF a = <<>> THEN 0 ELSE LimbBits * (Len(a) - 1) + BitLen(a[Len(a)])

BnOdd(a) == a # <<>> /\ a[1] % 2 = 1

\* a double: (-1)^neg * m * 2^e, m of at most 53 binary digits (or 2^53),
\* written without the digits of m that are 0 at its low end
RECURSIVE Float(_, _, _)
Float(neg, m, e) ==
    IF m = <<>> THEN [neg |-> FALSE, m |-> <<>>, e |-> 0]
    ELSE IF m[1] = 0 THEN Float(neg, Tail(m), e + LimbBits)
    ELSE [neg |-> neg, m |-> m, e |-> e]

\* the double nearest to (-1)^neg * m * 2^e, ties to the even one
FRound(neg, m, e) ==
    LET len == BnBitLen(m) IN
    IF len <= 53 THEN Float(neg, m, e)
    ELSE LET s == len - 53
             q == BnShr(m, s)
             up == /\ BnBit(m, s - 1) = 1
                   /\ (BnLow(m, s - 1) # <<>> \/ BnOdd(q))
         IN  Float(neg, IF up THEN BnAdd(q, <<1>>) ELSE q, e + s)

\* float(n) of an int
FFromInt(n) == Float(n < 0, BnFromInt(Abs(n)), 0)

\* the double a literal of the value x[1] / x[2] stands for: the quotient to
\* 64 binary digits and more, a last digit for a remainder, then rounded
FFromRat(x) ==
    LET n == BnShl(BnFromInt(Abs(x[1])), 64 + BitLen(x[2]))
        q == BnDivSmall(n, x[2])
        sticky == IF BnModSmall(n, x[2]) = 0 THEN <<>> ELSE <<1>>
    IN  FRound(x[1] < 0, BnAdd(BnShl(q, 1), sticky), -(65 + BitLen(x[2])))

\* x * y
FMul(x, y) ==
    IF x.m = <<>> \/ y.m = <<>> THEN Float(FALSE, <<>>, 0)
    ELSE FRound(x.neg # y.neg, BnMul(x.m, y.m), x.e + y.e)

\* x + y
FAdd(x, y) ==
    LET e == Min(x.e, y.e)
        a == BnShl(x.m, x.e - e)
        b == BnShl(y.m, y.e - e)
    IN  IF y.m = <<>> THEN x
        ELSE IF x.m = <<>> THEN y
        ELSE IF x.neg = y.neg THEN FRound(x.neg, BnAdd(a, b), e)
        ELSE IF BnCmp(a, b) >= 0 THEN FRound(x.neg, BnSub(a, b), e)
        ELSE FRound(y.neg, BnSub(b, a), e)

\* x ** i for an int i >= 0: 1.0 for i = 0, else the double nearest to the
\* power
FPow(x, i) ==
    IF i = 0 THEN FFromInt(1)
    ELSE FRound(x.neg /\ i % 2 = 1, BnPow(x.m, i), x.e * i)

\* the fade factors and the passes of the calls made below, and their
\* powers fade_factor**i, computed once
FadeFactors ==
    {Rat(-1, 2), Zero, Rat(1, 2), Rat(3, 5), Rat(7, 10), Rat(3, 4), One,
     Rat(3, 2)}
Passes == 0..9
Powers == [f \in FadeFactors |-> [i \in Passes |-> FPow(FFromRat(f), i)]]

\* line 113: fade = fade_factor**i
Fade(fade_f, i) ==
    IF fade_f \in FadeFactors /\ i \in Passes THEN Powers[fade_f][i]
    ELSE FPow(FFromRat(fade_f), i)

\* int(x): toward zero
FTrunc(x) ==
    LET n == BnToInt(IF x.e >= 0 THEN BnShl(x.m, x.e) ELSE BnShr(x.m, -x.e))
    IN  IF x.neg THEN -n ELSE n

\* mutant of Blend: no clamp
Blend_NoClamp(old, c, fade) == FTrunc(FAdd(FFromInt(old), FMul(FFromInt(c), fade)))

\* lines 115-117: min(255, int(leds[idx][c] + color[c] * fade))
Blend(old, c, fade) ==
    Min(255, FTrunc(FAdd(FFromInt(old), FMul(FFromInt(c), fade))))

\* mutant of TrailIndex: the trail runs ahead of the head
TrailIndex_Ahead(position, i, n) == (position + i) % n

\* line 112: idx = (position - i) % len(leds)
TrailIndex(position, i, n) == (position - i) % n

\* lines 111-117: the passes i, i + 1, ... of the loop
RECURSIVE TrailFrom(_, _, _, _, _, _)
TrailFrom(leds, position, color, len, fade_f, i) ==
    IF i >= len THEN leds
    ELSE LET idx == TrailIndex(position, i, NumLeds(leds))
             fade == Fade(fade_f, i)
             px == leds[idx]
         IN  TrailFrom([leds EXCEPT ![idx] =
                           <<Blend(px[1], color[1], fade),
                             Blend(px[2], color[2], fade),
                             Blend(px[3], color[3], fade)>>],
                       position, color, len, fade_f, i + 1)

\* the exception add_trail raises, "" when it raises none: the modulo of
\* line 112 by len(leds) = 0, met in the first pass
AddTrailRaises(leds, len) ==
    IF len > 0 /\ NumLeds(leds) = 0 THEN "ZeroDivisionError" ELSE ""

\* add_trail(leds, position, color, trail_length, fade_factor): the list after
\* the call
AddTrail(leds, position, color, len, fade_f) ==
    IF AddTrailRaises(leds, len) # "" THEN leds
    ELSE TrailFrom(leds, position, color, len, fade_f, 0)

\* the arguments are in the ranges the docstring gives (lines 92-97)
Documented(color, len, fade_f) ==
    /\ \A c \in 1..3 : color[c] \in 0..255
    /\ len >= 0
    /\ RatLeq(Zero, fade_f) /\ RatLeq(fade_f, One)

\* a call of add_trail on the list object r
AddTrailCall(r, position, color, len, fade_f) ==
    /\ bufs' = [bufs EXCEPT ![r] = AddTrail(@, position, color, len, fade_f)]
    /\ call' = [n |-> call.n + 1, leds |-> r, before |-> bufs[r],
                position |-> position, color |-> color, trail_length |-> len,
                fade_factor |-> fade_f,
                outcome |-> IF AddTrailRaises(bufs[r], len) # ""
                            THEN AddTrailRaises(bufs[r], len) ELSE "returned",
                documented |-> call.documented /\ Documented(color, len, fade_f)]

\* ---- add_trail called on a list, call after call (tests/test_animation.py) ----

\* the lists: 0, 1, 2, 3, 5 or 10 pixels, all black or all [200, 0, 255]
TrailLedCounts == {0, 1, 2, 3, 5, 10}
TrailFills == {Black, <<200, 0, 255>>}
TrailRef == 1

\* the arguments <<position, color, trail_length, fade_factor>>
TrailArgs ==
    ({0, 2} \X {<<100, 0, 0>>} \X {0, 1, 3, 10} \X {Rat(1, 2), One})
    \cup ({-1, 5} \X {<<255, 1, 100>>} \X {-1, 1, 3}
            \X {Zero, Rat(1, 2), Rat(3, 4), Rat(3, 2), Rat(-1, 2)})
    \cup ({5} \X {<<200, 0, 0>>, <<100, 0, 0>>} \X {4}
            \X {Rat(7, 10), Rat(3, 5)})

TrailCall(position, color, len, fade_f) ==
    /\ call.n < MaxTrailCalls
    /\ AddTrailCall(TrailRef, position, color, len, fade_f)
    /\ UNCHANGED <<registry, led_count, trail_length, fade_factor,
                   update_interval, positions, loop, sink, runner, app>>

InitTrail ==
    /\ clock = 0
    /\ timeout = MaxTimeout
    /\ fade_out = MaxFadeOut
    /\ location = DefaultLocation
    /\ beacons = EmptyDict
    /\ lock = NoOwner
    /\ frame = [t \in Threads |-> IdleFrame]
    /\ heap = [r \in ObjRefs |-> EmptyDict]
    /\ held = {}
    /\ hist = EmptyDict
    /\ led_count \in TrailLedCounts
    /\ trail_length = 0
    /\ fade_factor = One
    /\ update_interval = One
    /\ positions = EmptyDict
    /\ loop = LoopOff
    /\ \E fill \in TrailFills :
          bufs = [r \in BufRefs |->
                    IF r = TrailRef THEN [i \in 0..(led_count - 1) |-> fill]
                    ELSE NoLeds]
    /\ sink = NoSink
    /\ call = NoCall
    /\ runner = NoRunner
    /\ sim = NoSim
    /\ startup = NoStartup
    /\ mapped = NoColor
    /\ stats = NoStats

NextTrail == \E a \in TrailArgs : TrailCall(a[1], a[2], a[3], a[4])

SpecTrail == InitTrail /\ [][NextTrail]_vars

\* ---- run_wled_beacons (main.py) and the objects it uses ----

\* ble_beacon_to_rgb(beacon_id, rssi, 1.0), each channel times 1000 and before
\* int(): the gradient color of the rssi, shifted in hue by the hash of the id
BaseColor(id, rssi) ==
    CASE id = "a" /\ rssi = -50 -> <<0, 255000, 96864>>
      [] id = "a" /\ rssi = -60 -> <<0, 255000, 63471>>
      [] id = "b" /\ rssi = -50 -> <<0, 255000, 29710>>
      [] id = "b" /\ rssi = -60 -> <<3681, 255000, 0>>
      [] id = "beacon_0" /\ rssi \in {-33, -37, -42} -> <<0, 255000, 39289>>
      [] id = "beacon_0" /\ rssi = -53 -> <<0, 255000, 39225>>
      [] id = "beacon_0" /\ rssi = -54 -> <<0, 255000, 35942>>
      [] id = "beacon_0" /\ rssi = -64 -> <<29334, 255000, 0>>
      [] id = "beacon_0" /\ rssi = -68 -> <<85171, 255000, 0>>
      [] id = "beacon_0" /\ rssi = -76 -> <<255000, 196076, 0>>
      [] id = "beacon_0" /\ rssi \in {-81, -85} -> <<255000, 39289, 0>>

\* mutant of BleBeaconToRgb: the brightness falls as life grows
BleBeaconToRgb_Inverted(id, rssi, life) ==
    LET k == BaseColor(id, rssi)
    IN  <<(k[1] * (life[2] - life[1])) \div (1000 * life[2]),
          (k[2] * (life[2] - life[1])) \div (1000 * life[2]),
          (k[3] * (life[2] - life[1])) \div (1000 * life[2])>>

\* colors.py, lines 157-159: the value v * life, then int(channel * 255)
BleBeaconToRgb(id, rssi, life) ==
    LET k == BaseColor(id, rssi)
    IN  <<(k[1] * life[1]) \div (1000 * life[2]),
          (k[2] * life[1]) \div (1000 * life[2]),
          (k[3] * life[1]) \div (1000 * life[2])>>

\* BeaconRunner.next_position, lines 67-68: the modulo raises for led_count 0
NextPositionRaises == IF led_count = 0 THEN "ZeroDivisionError" ELSE ""

\* mutant of NextPosition: two steps a call
NextPosition_TwoSteps(id) ==
    ((IF id \in DOMAIN positions THEN positions[id] ELSE -1) + 2) % led_count

\* mutant of NextPosition: the position is not wrapped at led_count
NextPosition_NoWrap(id) ==
    (IF id \in DOMAIN positions THEN positions[id] ELSE -1) + 1

\* mutant of NextPosition: one cursor for the strip, shared by the beacons
NextPosition_Shared(id) ==
    ((IF positions = EmptyDict THEN -1
      ELSE CHOOSE p \in {positions[k] : k \in DOMAIN positions} :
              \A k \in DOMAIN positions : positions[k] <= p) + 1) % led_count

\* BeaconRunner.next_position, lines 67-68: positions.get(beacon_id, -1),
\* plus one, modulo led_count
NextPosition(id) ==
    ((IF id \in DOMAIN positions THEN positions[id] ELSE -1) + 1) % led_count

\* BeaconRunner.__init__, lines 44-45: led_count is stored as given, no check
BeaconRunnerInit ==
    /\ positions' = EmptyDict
    /\ runner' = [NoRunner EXCEPT !.built = TRUE]

\* BeaconRunner.next_position, lines 67-70: the new position is stored and
\* returned; the ZeroDivisionError of line 68 leaves the call before the store
NextPositionCall(id) ==
    /\ positions' = IF NextPositionRaises # "" THEN positions
                    ELSE DictSet(positions, id, NextPosition(id))
    /\ runner' = [runner EXCEPT
                     !.calls = DictSet(@, id, IF id \in DOMAIN @ THEN @[id] + 1 ELSE 1),
                     !.id = id,
                     !.prior = positions,
                     !.returned = IF NextPositionRaises # "" THEN -1
                                  ELSE NextPosition(id),
                     !.exc = NextPositionRaises]

\* mutant of NewLeds: one list built before the loop and used in every tick
NewLeds_Reused(tick) == 1

\* main.py, line 119: the list object built in the tick
NewLeds(tick) == tick

\* mutant of ForDone: controller.update called inside the for loop
ForDone_Early(items) == TRUE

\* main.py, lines 121-126: the for loop has run over every item
ForDone(items) == DOMAIN items = {}

\* mutant of PixelCount: a list one pixel longer than the strip
PixelCount_OneMore(n) == n + 1

\* main.py, line 119: range(led_count)
PixelCount(n) == n

\* main.py, line 116: runner = BeaconRunner(led_count)
RunWledBeacons ==
    /\ loop.pc = "off"
    /\ BeaconRunnerInit
    /\ loop' = [loop EXCEPT !.pc = "top"]
    /\ UNCHANGED <<registry, led_count, trail_length, fade_factor, update_interval,
                   bufs, sink, call, app>>

\* mutant of TickPositions: a BeaconRunner built inside the while loop
TickPositions_NewRunner(p) == EmptyDict

\* main.py, lines 116-118: the runner is built before the while loop, so a
\* tick starts with the cursors the tick before left
TickPositions(p) == p

\* main.py, lines 118-119: while True:
\* leds = [[0, 0, 0] for _ in range(led_count)]
LoopBegin ==
    /\ loop.pc = "top"
    /\ loop.tick < loop.ticks
    /\ positions' = TickPositions(positions)
    /\ LET r == NewLeds(loop.tick + 1) IN
        /\ bufs' = [bufs EXCEPT ![r] = FreshLeds(PixelCount(led_count))]
        /\ loop' = [LoopOff EXCEPT !.pc = "snapshot", !.leds = r,
                                   !.tick = loop.tick + 1,
                                   !.cursors = TickPositions(positions),
                                   !.gone = loop.gone, !.ticks = loop.ticks]
    /\ UNCHANGED <<registry, led_count, trail_length, fade_factor, update_interval,
                   sink, call, runner, app>>

\* main.py, line 121: beacon_state.snapshot() is called
LoopSnapCall ==
    /\ loop.pc = "snapshot"
    /\ SnapCall("main")

\* main.py, line 121: snapshot() returns the dict the for loop runs over (or
\* its ZeroDivisionError leaves run_wled_beacons)
LoopSnapReturn ==
    /\ loop.pc = "snapshot"
    /\ frame["main"].pc \in {"snap_done", "snap_raised"}
    /\ loop' = IF frame["main"].pc = "snap_done"
               THEN [loop EXCEPT !.pc = "items", !.items = Active("main"),
                                 !.snap = Active("main"),
                                 !.seen = frame["main"].seen, !.snaps = @ + 1,
                                 !.gone = @ \cup (DOMAIN frame["main"].seen
                                                    \ DOMAIN Active("main"))]
               ELSE [loop EXCEPT !.pc = "aborted", !.exc = "ZeroDivisionError"]
    /\ heap' = [heap EXCEPT ![frame["main"].active] = EmptyDict]
    /\ frame' = [frame EXCEPT !["main"] = IdleFrame]
    /\ UNCHANGED <<clock, config, beacons, lock, held, hist, led_count,
                   trail_length, fade_factor, update_interval, positions, bufs,
                   sink, call, runner, app>>

\* main.py, lines 122-124: one pass of the for loop, for the item of id:
\* next_position, ble_beacon_to_rgb, add_trail.  The passes are taken in any
\* order: the additions clamped at 255 give the same list in every order.
LoopPaint ==
    /\ loop.pc = "items"
    /\ \E id \in DOMAIN loop.items :
        IF NextPositionRaises # ""
        THEN /\ NextPositionCall(id)
             /\ loop' = [loop EXCEPT !.pc = "aborted", !.exc = NextPositionRaises]
             /\ UNCHANGED <<bufs, call>>
        ELSE LET pos == NextPosition(id)
                 color == BleBeaconToRgb(id, loop.items[id][1], loop.items[id][2])
             IN  /\ NextPositionCall(id)
                 /\ AddTrailCall(loop.leds, pos, color, trail_length, fade_factor)
                 /\ loop' = [loop EXCEPT
                        !.items = DictDel(@, {id}),
                        !.painted = @ \cup {id},
                        !.slots = @ \cup {TrailIndex(pos, i, led_count) :
                                            i \in 0..(trail_length - 1)}]
    /\ UNCHANGED <<registry, led_count, trail_length, fade_factor, update_interval,
                   sink, app>>

\* main.py, line 126: controller.update(leds) is called.  The list of the
\* call before, if it is another object, is referred to by nothing any more.
\* WLEDHTTPController.update with max_retries = 0 makes no pass and returns.
LoopSend ==
    /\ loop.pc = "items"
    /\ ForDone(loop.items)
    /\ sink' = [sink EXCEPT
                   !.last = [leds |-> loop.leds, pixels |-> bufs[loop.leds],
                             tick |-> loop.tick, painted |-> loop.painted],
                   !.attempt = 0, !.posts = 0, !.datagrams = 0, !.sleeps = 0,
                   !.failures = 0, !.packet = <<>>, !.results = <<>>,
                   !.outcome = IF sink.kind = "http" /\ sink.max_retries <= 0
                               THEN "dropped" ELSE ""]
    /\ bufs' = [r \in BufRefs |->
                  IF r = sink.last.leds /\ r # loop.leds THEN NoLeds ELSE bufs[r]]
    /\ loop' = [loop EXCEPT
                   !.pc = IF sink.kind = "http" /\ sink.max_retries <= 0
                          THEN "sleep" ELSE "update",
                   !.sent = @ + 1]
    /\ UNCHANGED <<registry, led_count, trail_length, fade_factor, update_interval,
                   positions, call, runner, app>>

\* what requests.post does: it returns, or raises one of requests.exceptions
PostResults == {"ok", "Timeout", "ReadTimeout", "ConnectionError", "RequestException"}

\* the exceptions WLEDHTTPController.update catches with a retry and a sleep:
\* wled.py, lines 119-123
HttpRetried == {"Timeout", "ReadTimeout", "ConnectionError"}

\* mutant of HttpCaught: no except clause for the other request exceptions
HttpCaught_OnlyRetried == HttpRetried

\* the exceptions update catches: lines 119-123, and line 141
HttpCaught == HttpRetried \cup {"RequestException"}

\* mutant of HttpReturns: no return after a successful POST
HttpReturns_Exhausted(result, made, n) == made >= n

\* wled.py, lines 115-118: update returns after the POST that succeeded, or
\* when range(max_retries) is used up
HttpReturns(result, made, n) == result = "ok" \/ made >= n

\* mutant of HttpSleeps: a sleep after the last attempt too
HttpSleeps_AfterLast(result, attempt, n) == result \in HttpRetried

\* wled.py, lines 119-131: time.sleep(0.05) in the handler of a timeout or a
\* connection failure, and there only if attempt < self.max_retries - 1
HttpSleeps(result, attempt, n) == result \in HttpRetried /\ attempt < n - 1

\* WLEDHTTPController.update, wled.py lines 115-143: one pass of the loop over
\* range(max_retries); result is what requests.post does.  A caught exception
\* is logged and the loop goes on; after the last pass update returns None.
HttpAttempt(result) ==
    /\ loop.pc = "update"
    /\ sink.kind = "http"
    /\ sink.attempt < sink.max_retries
    /\ LET raised == result \notin {"ok"} \cup HttpCaught
           returns == HttpReturns(result, sink.attempt + 1, sink.max_retries)
       IN
        /\ sink' = [sink EXCEPT
                       !.posts = @ + 1,
                       !.attempt = @ + 1,
                       !.failed = @ \/ result # "ok",
                       !.failures = IF result = "ok" THEN @ ELSE @ + 1,
                       !.sleeps = IF HttpSleeps(result, sink.attempt, sink.max_retries)
                                  THEN @ + 1 ELSE @,
                       !.results = Append(@, result),
                       !.outcome = IF raised THEN "raised"
                                   ELSE IF result = "ok" THEN "sent"
                                   ELSE IF returns THEN "dropped" ELSE @]
        /\ loop' = IF raised THEN [loop EXCEPT !.pc = "aborted", !.exc = result]
                   ELSE IF returns THEN [loop EXCEPT !.pc = "sleep"]
                   ELSE loop
    /\ UNCHANGED <<registry, led_count, trail_length, fade_factor, update_interval,
                   positions, bufs, call, runner, app>>

\* wled.py, line 197: bytearray(b"DRGB"), the bytes of the four letters
DrgbHeader == <<68, 82, 71, 66>>

\* mutant of PixelBytes: the channels in the order G, R, B
PixelBytes_GRB(px) == <<px[2], px[1], px[3]>>

\* wled.py, lines 199-200: bytes((r, g, b)), one byte per channel
PixelBytes(px) == <<px[1], px[2], px[3]>>

\* bytes() takes integers in range(0, 256) only
PacketRaises(leds) ==
    IF \E i \in DOMAIN leds : \E c \in 1..3 : leds[i][c] \notin 0..255
    THEN "ValueError" ELSE ""

\* lines 199-200: packet.extend(...) for the pixels from index i on
RECURSIVE PacketFrom(_, _)
PacketFrom(leds, i) ==
    IF i >= NumLeds(leds) THEN <<>>
    ELSE PixelBytes(leds[i]) \o PacketFrom(leds, i + 1)

\* lines 197-200: the packet of a list
Packet(leds) == DrgbHeader \o PacketFrom(leds, 0)

\* WLEDUDPController.update, wled.py lines 197-202: the packet is built (a
\* channel that is no byte raises ValueError) and handed to sock.sendto;
\* result is "ok" or the exception sendto raises.  Nothing in update or in
\* run_wled_beacons catches either exception.
UdpSendto(result) ==
    /\ loop.pc = "update"
    /\ sink.kind = "udp"
    /\ LET leds == bufs[loop.leds] IN
        IF PacketRaises(leds) # ""
        THEN /\ sink' = [sink EXCEPT !.outcome = "raised"]
             /\ loop' = [loop EXCEPT !.pc = "aborted", !.exc = PacketRaises(leds)]
        ELSE /\ sink' = [sink EXCEPT
                            !.datagrams = @ + 1,
                            !.packet = Packet(leds),
                            !.failed = @ \/ result # "ok",
                            !.outcome = IF result = "ok" THEN "sent" ELSE "raised"]
             /\ loop' = IF result = "ok" THEN [loop EXCEPT !.pc = "sleep"]
                        ELSE [loop EXCEPT !.pc = "aborted", !.exc = result]
    /\ UNCHANGED <<registry, led_count, trail_length, fade_factor, update_interval,
                   positions, bufs, call, runner, app>>

\* main.py, line 127: time.sleep(update_interval), then the next tick
LoopSleep ==
    /\ loop.pc = "sleep"
    /\ loop' = [loop EXCEPT !.pc = "top", !.slept = Append(@, update_interval)]
    /\ UNCHANGED <<registry, led_count, trail_length, fade_factor, update_interval,
                   positions, bufs, sink, call, runner, app>>

\* the strips, the trails and the controllers of the model
RenderLedCounts == {1, 3}
RenderTrails == {2}
SinkKinds == {"udp", "http"}

\* BeaconState(timeout_seconds=0, fade_out_seconds=1), a strip, a controller
\* of the kind given, and run_wled_beacons not yet called and to be followed
\* for the number of ticks given
RenderStart(kind, n, ticks) ==
    /\ clock = 0
    /\ timeout = 0
    /\ fade_out = 1
    /\ location = DefaultLocation
    /\ beacons = EmptyDict
    /\ lock = NoOwner
    /\ frame = [t \in Threads |-> IdleFrame]
    /\ heap = [r \in ObjRefs |-> EmptyDict]
    /\ held = {}
    /\ hist = EmptyDict
    /\ led_count \in RenderLedCounts
    /\ trail_length \in RenderTrails
    /\ fade_factor = Rat(1, 2)
    /\ update_interval = Rat(1, 5)
    /\ positions = EmptyDict
    /\ loop = [LoopOff EXCEPT !.ticks = ticks]
    /\ bufs = [r \in BufRefs |-> NoLeds]
    /\ sink = [NoSink EXCEPT !.kind = kind, !.max_retries = n]
    /\ call = NoCall
    /\ runner = NoRunner
    /\ sim = NoSim
    /\ startup = NoStartup
    /\ mapped = NoColor
    /\ stats = NoStats

\* the ingest thread stores sightings while the main thread renders
RenderCalls == {<<"a", -50>>, <<"b", -60>>}

\* run_wled_beacons with a WLEDUDPController, the clock running
InitRender == RenderStart("udp", 0, MaxFrames)

NextRender ==
    \/ TickConc
    \/ \E c \in RenderCalls : UpdateCall("mqtt", c[1], c[2])
    \/ UpdAcquire("mqtt")
    \/ UpdStore("mqtt")
    \/ UpdRelease("mqtt")
    \/ RunWledBeacons
    \/ LoopBegin
    \/ LoopSnapCall
    \/ SnapAcquire("main")
    \/ SnapIter("main")
    \/ SnapRemove("main")
    \/ SnapRelease("main")
    \/ LoopSnapReturn
    \/ LoopPaint
    \/ LoopSend
    \/ \E result \in {"ok", "OSError"} : UdpSendto(result)
    \/ LoopSleep

SpecRender == InitRender /\ [][NextRender]_vars

\* ---- updates that stop while the render loop goes on ----

\* the listener thread stores sightings of one beacon
ExpiryCalls == {<<"a", -50>>}
ExpiryIds == {c[1] : c \in ExpiryCalls}

\* BeaconState with every timeout from 0 and every fade-out from 1 that
\* lets a record expire before the clock stops, a strip of one LED, a
\* WLEDUDPController, and run_wled_beacons not yet called; the loop is
\* followed for MaxFrames ticks
InitExpiry ==
    /\ clock = 0
    /\ timeout \in 0..MaxTimeout
    /\ fade_out \in 1..MaxFadeOut
    /\ timeout + fade_out <= ExpiryMaxTime
    /\ location = DefaultLocation
    /\ beacons = EmptyDict
    /\ lock = NoOwner
    /\ frame = [t \in Threads |-> IdleFrame]
    /\ heap = [r \in ObjRefs |-> EmptyDict]
    /\ held = {}
    /\ hist = EmptyDict
    /\ led_count = 1
    /\ trail_length \in RenderTrails
    /\ fade_factor = Rat(1, 2)
    /\ update_interval = Rat(1, 5)
    /\ positions = EmptyDict
    /\ loop = LoopOff
    /\ bufs = [r \in BufRefs |-> NoLeds]
    /\ sink = [NoSink EXCEPT !.kind = "udp"]
    /\ call = NoCall
    /\ runner = NoRunner
    /\ sim = NoSim
    /\ startup = NoStartup
    /\ mapped = NoColor
    /\ stats = NoStats

\* the listener thread updates, the main thread runs tick after tick of
\* run_wled_beacons, a snapshot in each, until an exception ends the loop
\* or MaxFrames ticks are done; time passes, up to the bound of this
\* specification
TickExpiry == clock < ExpiryMaxTime /\ Tick

NextExpiry ==
    \/ TickExpiry
    \/ \E c \in ExpiryCalls : UpdateCall("mqtt", c[1], c[2])
    \/ UpdAcquire("mqtt")
    \/ UpdStore("mqtt")
    \/ UpdRelease("mqtt")
    \/ RunWledBeacons
    \/ LoopBegin
    \/ LoopSnapCall
    \/ SnapAcquire("main")
    \/ SnapIter("main")
    \/ SnapRemove("main")
    \/ SnapRelease("main")
    \/ LoopSnapReturn
    \/ LoopPaint
    \/ LoopSend
    \/ \E result \in {"ok", "OSError"} : UdpSendto(result)
    \/ LoopSleep

\* the steps of the render loop that wait for nothing, with a sendto that
\* returns: the loop is `while True`, and runs until it raises (here: or
\* until MaxFrames ticks are done)
LoopRuns ==
    \/ RunWledBeacons
    \/ LoopBegin
    \/ LoopSnapCall
    \/ SnapIter("main")
    \/ SnapRemove("main")
    \/ SnapRelease("main")
    \/ LoopSnapReturn
    \/ LoopSend
    \/ UdpSendto("ok")
    \/ LoopSleep

\* main.py, lines 121-124: the for loop has an item left, which is when
\* LoopPaint can be taken
PaintPending == loop.pc = "items" /\ ~ForDone(loop.items)

\* the clock advances, an update that has the lock gives it back, and the
\* loop goes on, unless it raises, and gets a lock that stays free.  The
\* last conjunct is the weak fairness of LoopPaint with its enabling
\* condition written out.  No fairness is asked of the listener thread's
\* calls, nor of an exception.
ExpiryFairness ==
    /\ WF_vars(TickExpiry)
    /\ WF_vars(UpdStore("mqtt") \/ UpdRelease("mqtt"))
    /\ WF_vars(LoopRuns)
    /\ WF_vars(SnapAcquire("main"))
    /\ ([]<>(~PaintPending) \/ []<><<LoopPaint>>_vars)

SpecExpiry == InitExpiry /\ [][NextExpiry]_vars /\ ExpiryFairness

\* run_wled_beacons with a controller of either kind, the clock standing
InitSink ==
    \E kind \in SinkKinds, n \in 0..MaxRetries :
        /\ kind = "udp" <=> n = 0
        /\ RenderStart(kind, n, MaxFrames)

NextSink ==
    \/ \E c \in RenderCalls : UpdateCall("mqtt", c[1], c[2])
    \/ UpdAcquire("mqtt")
    \/ UpdStore("mqtt")
    \/ UpdRelease("mqtt")
    \/ RunWledBeacons
    \/ LoopBegin
    \/ LoopSnapCall
    \/ SnapAcquire("main")
    \/ SnapIter("main")
    \/ SnapRemove("main")
    \/ SnapRelease("main")
    \/ LoopSnapReturn
    \/ LoopPaint
    \/ LoopSend
    \/ \E result \in PostResults : HttpAttempt(result)
    \/ \E result \in {"ok", "OSError"} : UdpSendto(result)
    \/ LoopSleep

SpecSink == InitSink /\ [][NextSink]_vars

\* ---- a beacon that comes, goes and comes back while the loop runs ----

\* the sightings of the one beacon, on a strip of three
CursorCalls == {<<"a", -50>>}
CursorLedCount == 3
CursorTicks == MaxFrames + 1

\* run_wled_beacons followed for one tick more: one to paint the beacon, one
\* whose snapshot removes it, one to paint it again
InitCursor ==
    /\ RenderStart("udp", 0, CursorTicks)
    /\ led_count = CursorLedCount

NextCursor ==
    \/ TickConc
    \/ \E c \in CursorCalls : UpdateCall("mqtt", c[1], c[2])
    \/ UpdAcquire("mqtt")
    \/ UpdStore("mqtt")
    \/ UpdRelease("mqtt")
    \/ RunWledBeacons
    \/ LoopBegin
    \/ LoopSnapCall
    \/ SnapAcquire("main")
    \/ SnapIter("main")
    \/ SnapRemove("main")
    \/ SnapRelease("main")
    \/ LoopSnapReturn
    \/ LoopPaint
    \/ LoopSend
    \/ \E result \in {"ok", "OSError"} : UdpSendto(result)
    \/ LoopSleep

SpecCursor == InitCursor /\ [][NextCursor]_vars

\* ---- cli_simulator.main with the mock generator ----

\* cli_simulator.py, line 269: `duration and time.time() - start_time > duration`;
\* None and 0 are both falsy
DurationExceeded(duration, elapsed) ==
    /\ duration.given
    /\ duration.secs # 0
    /\ elapsed > duration.secs

\* main, lines 204-216 and 263-264: the simulator, the registry and the
\* runner are built, start_time = time.time(), frame_count = 0
SimMain ==
    /\ sim.pc = "off"
    /\ BeaconRunnerInit
    /\ sim' = [sim EXCEPT !.pc = "check", !.start_time = clock]
    /\ UNCHANGED <<registry, led_count, trail_length, fade_factor, update_interval,
                   loop, bufs, sink, call, startup, mapped, stats>>

\* main, lines 267-273: the top of the while loop: the duration check, break
\* or frame_count += 1
SimCheck ==
    /\ sim.pc = "check"
    /\ LET elapsed == clock - sim.start_time IN
        sim' = IF DurationExceeded(sim.duration, elapsed)
               THEN [sim EXCEPT !.pc = "stopped", !.elapsed = elapsed]
               ELSE [sim EXCEPT !.pc = "generate", !.elapsed = elapsed,
                                !.frame_count = @ + 1]
    /\ UNCHANGED <<registry, led_count, trail_length, fade_factor, update_interval,
                   positions, loop, bufs, sink, call, runner, startup, mapped, stats>>

\* simulator.py, lines 224 and 256-273: what update(time_delta=1) of
\* MockBeaconGenerator(num_beacons=1) reports at its k-th call: beacon_0 with
\* int(-90 + 60 * (0.5 + 0.4 * cos(2 * pi * k / 10)) + 3 * sin(2 * k))
MockBeaconId == "beacon_0"
MockRssi == <<-37, -54, -68, -76, -85, -81, -64, -53, -42, -33>>

\* main, lines 280-288: beacon_generator.update(...) and, for the beacon it
\* reports, beacon_state.update(beacon_id, rssi): the whole call, no other
\* thread uses the registry
SimGenerate ==
    /\ sim.pc = "generate"
    /\ LockFree
    /\ sim.generated < Len(MockRssi)
    /\ beacons' = Stored(beacons, MockBeaconId, MockRssi[sim.generated + 1], clock)
    /\ hist' = DictSet(hist, MockBeaconId,
                       [rssi |-> MockRssi[sim.generated + 1], at |-> clock,
                        prior |-> Prior(beacons, MockBeaconId, clock)])
    /\ sim' = [sim EXCEPT !.pc = "render", !.generated = @ + 1]
    /\ loop' = [loop EXCEPT !.pc = "top"]
    /\ UNCHANGED <<clock, config, lock, frame, heap, held, led_count, trail_length,
                   fade_factor, update_interval, positions, bufs, sink, call,
                   runner, startup, mapped, stats>>

\* main, line 299: simulator.update(leds), which keeps a copy and draws it
SimShow ==
    /\ sim.pc = "render"
    /\ loop.pc = "update"
    /\ sink.kind = "simulator"
    /\ sink' = [sink EXCEPT !.outcome = "sent"]
    /\ loop' = [loop EXCEPT !.pc = "sleep"]
    /\ UNCHANGED <<registry, led_count, trail_length, fade_factor, update_interval,
                   positions, bufs, call, runner, app>>

\* main, line 320: time.sleep(update_interval), which takes dt; then the top
\* of the while loop
SimSleep(dt) ==
    /\ sim.pc = "render"
    /\ loop.pc = "sleep"
    /\ clock + dt <= MaxTime
    /\ clock' = clock + dt
    /\ sim' = [sim EXCEPT !.pc = "check"]
    /\ loop' = [loop EXCEPT !.pc = "off", !.slept = Append(@, update_interval)]
    /\ UNCHANGED <<config, beacons, lock, frame, heap, held, hist, led_count,
                   trail_length, fade_factor, update_interval, positions, bufs,
                   sink, call, runner, startup, mapped, stats>>

\* the durations, the strip, the ticks followed
SimDurations == {NoDuration} \cup {Seconds(d) : d \in 0..MaxDuration}
SimLedCount == 3
SimTicks == MaxDuration + 1

\* main, lines 211-215: BeaconState(timeout_seconds=3.0, fade_out_seconds=2.0)
SimTimeout == 3
SimFadeOut == 2

\* main(led_count=3, rows=1, cols=3, num_beacons=1, update_interval=1,
\* trail_length=2, fade_factor=0.5, duration=...), not yet called
InitSimulator ==
    /\ clock = 0
    /\ timeout = SimTimeout
    /\ fade_out = SimFadeOut
    /\ location = DefaultLocation
    /\ beacons = EmptyDict
    /\ lock = NoOwner
    /\ frame = [t \in Threads |-> IdleFrame]
    /\ heap = [r \in ObjRefs |-> EmptyDict]
    /\ held = {}
    /\ hist = EmptyDict
    /\ led_count = SimLedCount
    /\ trail_length = 2
    /\ fade_factor = Rat(1, 2)
    /\ update_interval = One
    /\ positions = EmptyDict
    /\ loop = [LoopOff EXCEPT !.ticks = SimTicks]
    /\ bufs = [r \in BufRefs |-> NoLeds]
    /\ sink = [NoSink EXCEPT !.kind = "simulator"]
    /\ call = NoCall
    /\ runner = NoRunner
    /\ sim \in {[NoSim EXCEPT !.duration = d] : d \in SimDurations}
    /\ startup = NoStartup
    /\ mapped = NoColor
    /\ stats = NoStats

NextSimulator ==
    \/ SimMain
    \/ SimCheck
    \/ SimGenerate
    \/ LoopBegin
    \/ LoopSnapCall
    \/ SnapAcquire("main")
    \/ SnapIter("main")
    \/ SnapRemove("main")
    \/ SnapRelease("main")
    \/ LoopSnapReturn
    \/ LoopPaint
    \/ LoopSend
    \/ SimShow
    \/ \E dt \in 1..2 : SimSleep(dt)

SpecSimulator == InitSimulator /\ [][NextSimulator]_vars

\* ---- Config.validate() at startup (main.py, lines 169-174) ----

\* config.py, lines 125-127: the led_count getter
LedCountRaises(count) == IF count <= 0 THEN "ValueError" ELSE ""

\* config.py, lines 384-386: the fade_factor getter, `not 0.0 < fade <= 1.0`
FadeFactorRaises(fade) ==
    IF ~(RatLt(Zero, fade) /\ RatLeq(fade, One)) THEN "ValueError" ELSE ""

\* Config.validate, lines 436-446: the getters are read in this order, with
\* OUTPUT_MODE, LOG_LEVEL and the ports as they are by default; the getters of
\* beacon_timeout_seconds, beacon_fade_out_seconds, update_interval and
\* trail_length return float(...) or int(...) of the setting, whatever it is
ValidateRaises ==
    IF LedCountRaises(led_count) # "" THEN "LED_COUNT"
    ELSE IF FadeFactorRaises(fade_factor) # "" THEN "FADE_FACTOR"
    ELSE ""

\* main.py, lines 169-174: config.validate(); a ValueError is logged and
\* raised again
ConfigValidate ==
    /\ startup.pc = "off"
    /\ startup' = IF ValidateRaises # ""
                  THEN [pc |-> "failed", exc |-> "ValueError", what |-> ValidateRaises]
                  ELSE [pc |-> "validated", exc |-> "", what |-> ""]
    /\ UNCHANGED <<registry, led_count, trail_length, fade_factor, update_interval,
                   positions, loop, bufs, sink, call, runner, sim, mapped, stats>>

\* the settings: numbers in and out of range for each parameter
ConfigTimeouts == {-1, 0, 2}
ConfigFadeOuts == {-1, 0, 1}
ConfigLedCounts == {-1, 0, 3}
ConfigTrails == {-1, 0, 2}
ConfigFadeFactors == {Rat(-1, 2), Zero, Rat(1, 2), One, Rat(3, 2)}
ConfigIntervals == {Rat(-1, 5), Zero, Rat(1, 5)}

InitConfig ==
    /\ clock = 0
    /\ timeout \in ConfigTimeouts
    /\ fade_out \in ConfigFadeOuts
    /\ location = DefaultLocation
    /\ beacons = EmptyDict
    /\ lock = NoOwner
    /\ frame = [t \in Threads |-> IdleFrame]
    /\ heap = [r \in ObjRefs |-> EmptyDict]
    /\ held = {}
    /\ hist = EmptyDict
    /\ led_count \in ConfigLedCounts
    /\ trail_length \in ConfigTrails
    /\ fade_factor \in ConfigFadeFactors
    /\ update_interval \in ConfigIntervals
    /\ positions = EmptyDict
    /\ loop = LoopOff
    /\ bufs = [r \in BufRefs |-> NoLeds]
    /\ sink = NoSink
    /\ call = NoCall
    /\ runner = NoRunner
    /\ sim = NoSim
    /\ startup = NoStartup
    /\ mapped = NoColor
    /\ stats = NoStats

NextConfig == ConfigValidate

SpecConfig == InitConfig /\ [][NextConfig]_vars

\* ---- ble_beacon_to_rgb on its own (tests/test_conversions.py) ----

\* the visibilities: fractions of [0, 1]
ColorLives ==
    {Zero, Rat(1, 10), Rat(1, 4), Rat(1, 3), Rat(1, 2), Rat(2, 3), Rat(3, 4),
     Rat(9, 10), One}

\* color = ble_beacon_to_rgb(id, rssi, life)
ColorCall(id, rssi, life) ==
    /\ mapped.n < MaxColorCalls
    /\ mapped' = [mapped EXCEPT
                     !.n = mapped.n + 1, !.id = id, !.rssi = rssi, !.life = life,
                     !.color = BleBeaconToRgb(id, rssi, life),
                     !.prev_id = mapped.id, !.prev_rssi = mapped.rssi,
                     !.prev_life = mapped.life, !.prev_color = mapped.color]
    /\ UNCHANGED <<registry, led_count, trail_length, fade_factor, update_interval,
                   positions, loop, bufs, sink, call, runner, sim, startup, stats>>

InitColor ==
    /\ clock = 0
    /\ timeout = MaxTimeout
    /\ fade_out = MaxFadeOut
    /\ location = DefaultLocation
    /\ beacons = EmptyDict
    /\ lock = NoOwner
    /\ frame = [t \in Threads |-> IdleFrame]
    /\ heap = [r \in ObjRefs |-> EmptyDict]
    /\ held = {}
    /\ hist = EmptyDict
    /\ DisplayOff

NextColor ==
    \E id \in BeaconIds, rssi \in RssiValues, life \in ColorLives :
        ColorCall(id, rssi, life)

SpecColor == InitColor /\ [][NextColor]_vars

\* ---- gradient_color on its own (tests/test_conversions.py) ----

RatMin(x, y) == IF RatLeq(x, y) THEN x ELSE y
RatDiv(x, y) == Rat(x[1] * y[2], x[2] * y[1])

\* colors.py, line 72: a + (b - a) * t
Lerp(a, b, t) ==
    LET p == RatMul(RatSub(b, a), t)
        q == RatAdd(a, p)
    IN  Rat(q[1], q[2])

\* colors.py, lines 105-111: the distance clamped to [near, far], its place t
\* in that range, and the two halves of the gradient
GradientColor(distance, near, far) ==
    LET d == RatMax(near, RatMin(far, distance))
        t == RatDiv(RatSub(d, near), RatSub(far, near))
        half == Rat(1, 2)
    IN  IF RatLt(t, half)
        THEN <<Lerp(Zero, One, RatDiv(t, half)), One, Zero>>
        ELSE <<One, Lerp(One, Zero, RatDiv(RatSub(t, half), half)), Zero>>

\* gradient_color(distance, near, far)
GradientCall(distance, near, far) ==
    /\ mapped' = [mapped EXCEPT !.graded = TRUE, !.distance = distance,
                                !.near = near, !.far = far,
                                !.gradient = GradientColor(distance, near, far)]
    /\ UNCHANGED <<registry, led_count, trail_length, fade_factor, update_interval,
                   positions, loop, bufs, sink, call, runner, sim, startup, stats>>

\* the distances, in eighths of a metre up to 16 m, and the thresholds: the
\* defaults and three other pairs
GradientDistances == {Rat(k, 8) : k \in 0..128}
GradientRanges ==
    {<<Rat(1, 2), Rat(10, 1)>>, <<One, Rat(5, 1)>>, <<One, Rat(9, 1)>>,
     <<Rat(1, 2), Rat(9, 2)>>}

InitGradient == InitColor

NextGradient ==
    \E distance \in GradientDistances, r \in GradientRanges :
        GradientCall(distance, r[1], r[2])

SpecGradient == InitGradient /\ [][NextGradient]_vars

\* ---- an MQTTStatistics shared by threads (tests/test_cli_simulator.py) ----

\* mutant of StatsLockFree: the bodies run without self.lock
StatsLockFree_NoLock == TRUE

\* cli_simulator.py, lines 57 and 70: with self.lock can be entered
StatsLockFree == stats.lock = NoOwner

\* dict.get(beacon_id, 0)
GetOr0(d, id) == IF id \in DOMAIN d THEN d[id] ELSE 0

NotStats ==
    <<registry, led_count, trail_length, fade_factor, update_interval, positions,
      loop, bufs, sink, call, runner, sim, startup, mapped>>

NotStatsNorFrame ==
    <<clock, config, beacons, lock, heap, held, hist, led_count, trail_length,
      fade_factor, update_interval, positions, loop, bufs, sink, call, runner,
      sim, startup, mapped>>

\* the threads inside StatisticsTrackingBeaconState.update that have not yet
\* called record_message
Unrecorded ==
    {t \in Threads : frame[t].caller = "tracked" /\ frame[t].pc # "tracked_rec"}

\* StatisticsTrackingBeaconState.update(beacon_id, rssi), lines 104-111:
\* super().update(beacon_id, rssi) is called, which reads the clock
TrackedUpdateCall(t, id, rssi) ==
    /\ frame[t].pc = "idle"
    /\ stats.frame[t].pc = "idle"
    /\ stats.started + Cardinality(Unrecorded) < MaxRecorded
    /\ frame' = [frame EXCEPT ![t] =
                    [IdleFrame EXCEPT !.pc = "upd_wait", !.caller = "tracked",
                                      !.now = clock, !.beacon_id = id,
                                      !.rssi = rssi]]
    /\ UNCHANGED <<clock, config, beacons, lock, heap, held, hist, display>>

\* line 112: super().update has returned and
\* self.stats.record_message(beacon_id) is called
TrackedRecord(t) ==
    /\ frame[t].caller = "tracked"
    /\ frame[t].pc = "upd_done"
    /\ frame' = [frame EXCEPT ![t].pc = "tracked_rec"]
    /\ stats' = [stats EXCEPT
                     !.frame[t] = [pc |-> "rec_wait", id |-> frame[t].beacon_id,
                                   read |-> 0],
                     !.started = @ + 1]
    /\ UNCHANGED NotStatsNorFrame

\* record_message(beacon_id) is called by the program itself
RecordCall(t, id) ==
    /\ frame[t].pc = "idle"
    /\ stats.frame[t].pc = "idle"
    /\ stats.started + Cardinality(Unrecorded) < MaxRecorded
    /\ stats' = [stats EXCEPT !.frame[t] = [pc |-> "rec_wait", id |-> id, read |-> 0],
                              !.started = @ + 1]
    /\ UNCHANGED NotStats

\* line 57: with self.lock
RecordAcquire(t) ==
    /\ stats.frame[t].pc = "rec_wait"
    /\ StatsLockFree
    /\ stats' = [stats EXCEPT !.lock = t, !.frame[t].pc = "rec_total"]
    /\ UNCHANGED NotStats

\* line 58: self.total_messages += 1, the read
RecordReadTotal(t) ==
    /\ stats.frame[t].pc = "rec_total"
    /\ stats' = [stats EXCEPT !.frame[t].pc = "rec_total_store",
                              !.frame[t].read = stats.total]
    /\ UNCHANGED NotStats

\* line 58: the store
RecordStoreTotal(t) ==
    /\ stats.frame[t].pc = "rec_total_store"
    /\ stats' = [stats EXCEPT !.total = stats.frame[t].read + 1,
                              !.frame[t].pc = "rec_beacon"]
    /\ UNCHANGED NotStats

\* lines 59-61: self.messages_by_beacon.get(beacon_id, 0), the read
RecordReadBeacon(t) ==
    /\ stats.frame[t].pc = "rec_beacon"
    /\ stats' = [stats EXCEPT !.frame[t].pc = "rec_beacon_store",
                              !.frame[t].read = GetOr0(stats.by_beacon, stats.frame[t].id)]
    /\ UNCHANGED NotStats

\* lines 59-61: self.messages_by_beacon[beacon_id] = ... + 1
RecordStoreBeacon(t) ==
    /\ stats.frame[t].pc = "rec_beacon_store"
    /\ stats' = [stats EXCEPT
                     !.by_beacon = DictSet(@, stats.frame[t].id, stats.frame[t].read + 1),
                     !.frame[t].pc = "rec_release"]
    /\ UNCHANGED NotStats

\* line 62 and the end of the with block: the call returns, and with it
\* the StatisticsTrackingBeaconState.update that made it
RecordRelease(t) ==
    /\ stats.frame[t].pc = "rec_release"
    /\ stats' = [stats EXCEPT
                     !.lock = IF @ = t THEN NoOwner ELSE @,
                     !.frame[t] = [pc |-> "idle", id |-> "", read |-> 0],
                     !.returned = @ + 1]
    /\ frame' = IF frame[t].pc = "tracked_rec"
                THEN [frame EXCEPT ![t] = IdleFrame] ELSE frame
    /\ UNCHANGED NotStatsNorFrame

\* get_stats() is called
GetStatsCall(t) ==
    /\ frame[t].pc = "idle"
    /\ stats.frame[t].pc = "idle"
    /\ stats' = [stats EXCEPT !.frame[t].pc = "get_wait"]
    /\ UNCHANGED NotStats

\* line 70: with self.lock
GetStatsAcquire(t) ==
    /\ stats.frame[t].pc = "get_wait"
    /\ StatsLockFree
    /\ stats' = [stats EXCEPT !.lock = t, !.frame[t].pc = "get_total"]
    /\ UNCHANGED NotStats

\* lines 72-74: "total": self.total_messages
GetStatsTotal(t) ==
    /\ stats.frame[t].pc = "get_total"
    /\ stats' = [stats EXCEPT !.frame[t].pc = "get_beacons",
                              !.frame[t].read = stats.total]
    /\ UNCHANGED NotStats

\* lines 77-79: "by_beacon": dict(self.messages_by_beacon); the dict is
\* returned and the lock released
GetStatsReturn(t) ==
    /\ stats.frame[t].pc = "get_beacons"
    /\ stats' = [stats EXCEPT
                     !.lock = IF @ = t THEN NoOwner ELSE @,
                     !.frame[t] = [pc |-> "idle", id |-> "", read |-> 0],
                     !.got = [given |-> TRUE, total |-> stats.frame[t].read,
                              by_beacon |-> stats.by_beacon]]
    /\ UNCHANGED NotStats

InitStats == InitColor

\* the sightings the broker's thread hands to the tracked registry
TrackedCalls == {<<"a", -50>>, <<"b", -50>>}

\* threads calling record_message and get_stats, as the tests do, and, as in
\* the simulator's MQTT mode (lines 209-213, 293 and 303-304), the broker's
\* thread updating the tracked registry while main takes snapshots
NextStats ==
    \/ \E c \in TrackedCalls : TrackedUpdateCall("mqtt", c[1], c[2])
    \/ UpdAcquire("mqtt")
    \/ UpdStore("mqtt")
    \/ UpdRelease("mqtt")
    \/ TrackedRecord("mqtt")
    \/ SnapCall("main")
    \/ SnapAcquire("main")
    \/ SnapIter("main")
    \/ SnapRemove("main")
    \/ SnapRelease("main")
    \/ SnapReturn("main")
    \/ \E t \in Threads, id \in BeaconIds : RecordCall(t, id)
    \/ \E t \in Threads : RecordAcquire(t)
    \/ \E t \in Threads : RecordReadTotal(t)
    \/ \E t \in Threads : RecordStoreTotal(t)
    \/ \E t \in Threads : RecordReadBeacon(t)
    \/ \E t \in Threads : RecordStoreBeacon(t)
    \/ \E t \in Threads : RecordRelease(t)
    \/ \E t \in Threads : GetStatsCall(t)
    \/ \E t \in Threads : GetStatsAcquire(t)
    \/ \E t \in Threads : GetStatsTotal(t)
    \/ \E t \in Threads : GetStatsReturn(t)

SpecStats == InitStats /\ [][NextStats]_vars

\* ---- a BeaconRunner on its own (tests/test_beacon_runner.py) ----

\* the strips: BeaconRunner takes any led_count, 0 too
RunnerLedCounts == {0, 1, 2, 3}

\* the number of next_position calls made so far
RECURSIVE CallsMade(_)
CallsMade(calls) ==
    IF DOMAIN calls = {} THEN 0
    ELSE LET id == CHOOSE k \in DOMAIN calls : TRUE
         IN  calls[id] + CallsMade(DictDel(calls, {id}))

\* runner = BeaconRunner(led_count)
RunnerNew ==
    /\ ~runner.built
    /\ BeaconRunnerInit
    /\ UNCHANGED <<registry, led_count, trail_length, fade_factor, update_interval,
                   loop, bufs, sink, call, app>>

\* runner.next_position(id)
RunnerStep(id) ==
    /\ runner.built
    /\ CallsMade(runner.calls) < MaxPositionCalls
    /\ NextPositionCall(id)
    /\ UNCHANGED <<registry, led_count, trail_length, fade_factor, update_interval,
                   loop, bufs, sink, call, app>>

InitRunner ==
    /\ clock = 0
    /\ timeout = MaxTimeout
    /\ fade_out = MaxFadeOut
    /\ location = DefaultLocation
    /\ beacons = EmptyDict
    /\ lock = NoOwner
    /\ frame = [t \in Threads |-> IdleFrame]
    /\ heap = [r \in ObjRefs |-> EmptyDict]
    /\ held = {}
    /\ hist = EmptyDict
    /\ led_count \in RunnerLedCounts
    /\ trail_length = 0
    /\ fade_factor = One
    /\ update_interval = One
    /\ positions = EmptyDict
    /\ loop = LoopOff
    /\ bufs = [r \in BufRefs |-> NoLeds]
    /\ sink = NoSink
    /\ call = NoCall
    /\ runner = NoRunner
    /\ sim = NoSim
    /\ startup = NoStartup
    /\ mapped = NoColor
    /\ stats = NoStats

NextRunner ==
    \/ RunnerNew
    \/ \E id \in BeaconIds : RunnerStep(id)

SpecRunner == InitRunner /\ [][NextRunner]_vars

\* ----------------------- the claims -----------------------

\* a snapshot() call of thread t has finished its loops and still holds the lock
Finishing(t) == frame[t].pc = "snap_release"

\* the age snapshot() computes for a record it found
AgeSeen(t, id) == frame[t].now - frame[t].seen[id].last_seen

\* C1: for every tracked identity snapshot() computes age = now - last_seen and
\* reports visibility 1.0 when age <= timeout and max(0, 1 - (age - timeout) /
\* fade_out) otherwise (a value of 0 is computed, and then not reported);
\* for timeout < age < timeout + fade_out the value is strictly between 0 and 1.
C1_Visibility ==
    \A t \in Threads :
        /\ (frame[t].pc = "snap_iter" /\ frame[t].todo = {}) =>
            \A id \in DOMAIN frame[t].seen :
                LET over == AgeSeen(t, id) - timeout
                    v == beacons[id].life
                IN  /\ over <= 0 => v = <<1, 1>>
                    /\ over >= fade_out => v = <<0, 1>>
                    /\ (0 < over /\ over < fade_out) =>
                          v[2] > 0 /\ v[1] * fade_out = v[2] * (fade_out - over)
        /\ Finishing(t) =>
            \A id \in DOMAIN frame[t].seen :
                LET over == AgeSeen(t, id) - timeout IN
                    /\ over <= 0 => id \in DOMAIN Active(t) /\ Active(t)[id][2] = <<1, 1>>
                    /\ (0 < over /\ over < fade_out) =>
                          /\ id \in DOMAIN Active(t)
                          /\ LET v == Active(t)[id][2] IN
                                /\ v[1] * fade_out = v[2] * (fade_out - over)
                                /\ 0 < v[1] /\ v[1] < v[2]

C1_Witness ==
    \E t \in Threads : \E id \in BeaconIds :
        /\ Finishing(t)
        /\ id \in DOMAIN frame[t].seen
        /\ AgeSeen(t, id) > timeout
        /\ AgeSeen(t, id) < timeout + fade_out
        /\ timeout > 0
        /\ id \in DOMAIN Active(t)
        /\ RatLt(Zero, Active(t)[id][2]) /\ RatLt(Active(t)[id][2], One)

\* C2: after update(id, rssi), whatever the beacon's state before it, a snapshot
\* taken while the new age is <= timeout contains id with exactly (rssi, 1.0).
C2_UpdateResetsVisibility ==
    \A t \in Threads : Finishing(t) =>
        \A id \in DOMAIN hist :
            frame[t].now - hist[id].at <= timeout =>
                /\ id \in DOMAIN Active(t)
                /\ Active(t)[id] = <<hist[id].rssi, <<1, 1>>>>

C2_Witness ==
    \E t \in Threads : \E id \in DOMAIN hist :
        /\ Finishing(t)
        /\ hist[id].prior = "fading"
        /\ frame[t].now - hist[id].at <= timeout
        /\ id \in DOMAIN Active(t)
        /\ Active(t)[id] = <<hist[id].rssi, <<1, 1>>>>

\* C3: a snapshot() call that computes visibility 0 for an identity (age >=
\* timeout + fade_out) leaves it out of the returned mapping and deletes its
\* record within the same call; an identity with visibility > 0 is neither
\* left out nor deleted.
C3_LazyRemoval ==
    \A t \in Threads : Finishing(t) =>
        \A id \in DOMAIN frame[t].seen :
            IF AgeSeen(t, id) >= timeout + fade_out
            THEN id \notin DOMAIN Active(t) /\ id \notin DOMAIN beacons
            ELSE id \in DOMAIN Active(t) /\ id \in DOMAIN beacons

C3_Witness ==
    \E t \in Threads : \E gone, kept \in BeaconIds :
        /\ Finishing(t)
        /\ gone \in DOMAIN frame[t].seen /\ kept \in DOMAIN frame[t].seen
        /\ AgeSeen(t, gone) = timeout + fade_out
        /\ gone \notin DOMAIN beacons /\ gone \notin DOMAIN Active(t)
        /\ kept \in DOMAIN beacons /\ kept \in DOMAIN Active(t)

\* C4: update and snapshot of one BeaconState are mutually exclusive: no two
\* calls are inside the critical section at once, the map a snapshot iterates
\* is not modified by another call meanwhile, and what a snapshot reports for
\* an identity is the rssi and the last_seen of one and the same update call.
InCriticalSection(t) ==
    frame[t].pc \in {"upd_cs", "upd_release", "snap_iter", "snap_release"}

C4_MutualExclusion ==
    /\ \A t, u \in Threads : InCriticalSection(t) /\ InCriticalSection(u) => t = u
    /\ \A t \in Threads : InCriticalSection(t) => lock = t
    /\ \A t \in Threads : frame[t].pc = "snap_iter" =>
          /\ DOMAIN beacons = DOMAIN frame[t].seen
          /\ \A id \in DOMAIN beacons :
                /\ beacons[id].rssi = frame[t].seen[id].rssi
                /\ beacons[id].last_seen = frame[t].seen[id].last_seen
    /\ \A t \in Threads : frame[t].pc \in {"snap_iter", "snap_release"} =>
          \A id \in DOMAIN Active(t) :
              /\ id \in DOMAIN hist
              /\ Active(t)[id][1] = hist[id].rssi
              /\ frame[t].seen[id].last_seen = hist[id].at
              /\ LET over == frame[t].now - hist[id].at - timeout
                     v == Active(t)[id][2]
                 IN  IF over <= 0 THEN v = <<1, 1>>
                     ELSE v[1] * fade_out = v[2] * (fade_out - over)

\* a snapshot holds the lock with a record reported, an update of that
\* beacon with another rssi waits for the lock
C4_Witness ==
    \E t, u \in Threads :
        /\ frame[t].pc = "snap_iter"
        /\ frame[u].pc = "upd_wait"
        /\ frame[u].beacon_id \in DOMAIN Active(t)
        /\ frame[u].rssi # Active(t)[frame[u].beacon_id][1]
        /\ frame[t].todo # {}

\* C5: the mapping snapshot() returns shares no mutable state with the
\* registry: no update() or snapshot() changes a mapping returned earlier, and
\* a caller modifying a returned mapping changes nothing the registry stores.
CallerWrites ==
    \E t \in Threads, r \in held, id \in BeaconIds : CallerMutate(t, r, id)

C5_Isolation ==
    [][/\ \A r \in held \cap held' : CallerWrites \/ Deref(r)' = Deref(r)
       /\ CallerWrites => beacons' = beacons
       /\ \A r \in held' : r # RegistryRef /\ \A t \in Threads : frame'[t].active # r
      ]_vars

\* a kept mapping still shows a beacon with the rssi it had, after the
\* registry has stored another rssi for it
C5_Witness ==
    \E r \in held : \E id \in DOMAIN Deref(r) :
        /\ r # RegistryRef
        /\ id \in DOMAIN beacons
        /\ Deref(r)[id][1] # beacons[id].rssi
        /\ \E t \in Threads : frame[t].pc = "snap_done"

\* C6: last write wins: a snapshot reports for each identity the signal
\* strength of the most recent update for it, and an update for one identity
\* leaves the records of all other identities unchanged (the registry is a
\* dict, so it holds one record per identity).
C6_LastWriteWins ==
    \A t \in Threads :
        /\ Finishing(t) =>
            \A id \in DOMAIN Active(t) :
                id \in DOMAIN hist /\ Active(t)[id][1] = hist[id].rssi
        /\ frame[t].pc = "upd_release" =>
            /\ DOMAIN beacons = DOMAIN frame[t].seen \cup {frame[t].beacon_id}
            /\ beacons[frame[t].beacon_id].rssi = frame[t].rssi
            /\ \A other \in DOMAIN frame[t].seen \ {frame[t].beacon_id} :
                  beacons[other] = frame[t].seen[other]

C6_Witness ==
    \E t \in Threads : \E other \in BeaconIds :
        /\ frame[t].pc = "upd_release"
        /\ frame[t].beacon_id \in DOMAIN frame[t].seen
        /\ frame[t].seen[frame[t].beacon_id].rssi # frame[t].rssi
        /\ beacons[frame[t].beacon_id].rssi = frame[t].rssi
        /\ other # frame[t].beacon_id
        /\ other \in DOMAIN beacons
        /\ beacons[other] = frame[t].seen[other]

\* ---- on_message ----

\* on_message has run to its end for the message in frame[t].msg
Handled(t) == frame[t].pc = "om_done"

LastSegment(msg) == msg.topic[Len(msg.topic)]
TopicIdentity(msg) == msg.topic[Len(msg.topic) - 1]

\* C7: for a message whose topic has at least 4 segments, whose last segment
\* is the configured location, and whose payload is a JSON object with an id
\* equal to the topic's second-to-last segment and a numeric rssi, on_message
\* calls update(identity, r) exactly once, r being rssi truncated toward zero.
C7_UpdateOnceTruncated ==
    \A t \in Threads :
        LET msg == frame[t].msg
            h == msg.payload.rssi.n
        IN  ( /\ Handled(t)
              /\ Len(msg.topic) >= 4
              /\ LastSegment(msg) = location
              /\ msg.payload.kind = "object"
              /\ msg.payload.id.t = "str"
              /\ msg.payload.id.s = TopicIdentity(msg)
              /\ msg.payload.rssi.t \in {"num", "inf"} )
            => /\ frame[t].outcome = "returned"
               /\ Len(frame[t].calls) = 1
               /\ frame[t].calls[1][1] = TopicIdentity(msg)
               /\ msg.payload.rssi.t = "num"
               /\ LET r == frame[t].calls[1][2] IN
                     /\ Abs(r) * 100 <= Abs(h)
                     /\ Abs(h) < (Abs(r) + 1) * 100
                     /\ r # 0 => ((r < 0) <=> (h < 0))

\* what the code does there: the same, for a non-empty id and a finite rssi
C7_ForNonEmptyIdAndFiniteRssi ==
    \A t \in Threads :
        LET msg == frame[t].msg
            h == msg.payload.rssi.n
        IN  ( /\ Handled(t)
              /\ Len(msg.topic) >= 4
              /\ LastSegment(msg) = location
              /\ msg.payload.kind = "object"
              /\ msg.payload.id.t = "str"
              /\ msg.payload.id.s = TopicIdentity(msg)
              /\ msg.payload.id.s # ""
              /\ msg.payload.rssi.t = "num" )
            => /\ frame[t].outcome = "returned"
               /\ Len(frame[t].calls) = 1
               /\ frame[t].calls[1][1] = TopicIdentity(msg)
               /\ beacons[TopicIdentity(msg)].rssi = frame[t].calls[1][2]
               /\ LET r == frame[t].calls[1][2] IN
                     /\ Abs(r) * 100 <= Abs(h)
                     /\ Abs(h) < (Abs(r) + 1) * 100
                     /\ r # 0 => ((r < 0) <=> (h < 0))

\* C8: a malformed ingest message is never propagated: for every inbound
\* message on_message returns normally and no exception escapes.
C8_NeverPropagates ==
    \A t \in Threads : Handled(t) => frame[t].outcome = "returned"

\* the checks of C9: at least 4 topic segments, the location equals the filter,
\* the payload parses, id and rssi are both present, the payload id equals the
\* topic identity
PassesEveryCheck(msg) ==
    /\ Len(msg.topic) >= 4
    /\ LastSegment(msg) = location
    /\ msg.payload.kind = "object"
    /\ msg.payload.id.t \notin {"absent", "null"}
    /\ msg.payload.rssi.t \notin {"absent", "null"}
    /\ msg.payload.id = JStr(TopicIdentity(msg))

\* C9: a message changes registry state only if it passes every check;
\* whenever a check fails, update is not called and the registry's records
\* after the message are exactly those before it.
C9_OnlyCheckedMessagesUpdate ==
    \A t \in Threads : Handled(t) =>
        /\ ~PassesEveryCheck(frame[t].msg) =>
              frame[t].calls = <<>> /\ beacons = frame[t].before
        /\ beacons # frame[t].before => PassesEveryCheck(frame[t].msg)

\* a message that fails nothing but the comparison of the two ids, handled
\* with a record in the registry
C9_Witness ==
    \E t \in Threads :
        /\ Handled(t)
        /\ Len(frame[t].msg.topic) >= 4
        /\ LastSegment(frame[t].msg) = location
        /\ frame[t].msg.payload.kind = "object"
        /\ frame[t].msg.payload.id = JStr("b")
        /\ TopicIdentity(frame[t].msg) = "a"
        /\ frame[t].msg.payload.rssi = JNum(-8477)
        /\ "a" \in DOMAIN frame[t].before
        /\ frame[t].before["a"].rssi # -84
        /\ frame[t].before["a"].last_seen < clock
        /\ beacons = frame[t].before

\* C10: a message whose topic's last segment differs from the configured
\* location is discarded silently and before its payload is looked at: no
\* registry update, no warning and no error, whatever the payload contains.
C10_LocationFilter ==
    \A t \in Threads :
        (Handled(t) /\ LastSegment(frame[t].msg) # location) =>
            /\ frame[t].outcome = "returned"
            /\ frame[t].warned = 0
            /\ ~frame[t].parsed
            /\ frame[t].calls = <<>>
            /\ beacons = frame[t].before

\* a message that the other filter accepts, handled and discarded
C10_Witness ==
    \E t \in Threads :
        /\ Handled(t)
        /\ Len(frame[t].msg.topic) >= 4
        /\ LastSegment(frame[t].msg) # location
        /\ LastSegment(frame[t].msg) \in Locations
        /\ frame[t].msg.payload.kind = "object"
        /\ frame[t].msg.payload.id = JStr(TopicIdentity(frame[t].msg))
        /\ TopicIdentity(frame[t].msg) # ""
        /\ frame[t].msg.payload.rssi.t = "num"
        /\ beacons = frame[t].before
        /\ frame[t].calls = <<>>

\* ---- C11: the end-to-end scenario of a message and a snapshot ----

\* the snapshot of the scenario has finished its loops; the handled message is
\* still in the frame of on_message
ScenarioSnapshot ==
    /\ Finishing("main")
    /\ frame["mqtt"].pc = "om_done"
    /\ frame["mqtt"].msg.payload.id = JStr("a")

\* the message is for the configured location and the snapshot is taken before
\* a record stored by the message could have expired
ScenarioInTime ==
    /\ LastSegment(frame["mqtt"].msg) = location
    /\ frame["main"].now - frame["mqtt"].now < timeout + fade_out

\* the snapshot holds beacon "a" with the truncated rssi of the message
ScenarioReports ==
    /\ "a" \in DOMAIN Active("main")
    /\ Active("main")["a"][1] = IntOf(frame["mqtt"].msg.payload.rssi)

\* C11 as stated: a message on the three-segment topic root/a/balkon with
\* payload {"id": "a", "rssi": -50}, received while the location filter is
\* "balkon", results in a snapshot that contains "a" with rssi -50.
C11_ThreeSegmentTopicIngested ==
    (/\ ScenarioSnapshot
     /\ ScenarioInTime
     /\ frame["mqtt"].msg.topic = <<"root", "a", "balkon">>
     /\ frame["mqtt"].msg.payload.rssi = JNum(-5000))
        => (ScenarioReports /\ Active("main")["a"][1] = -50)

\* C11 amended: the message is ingested when its topic has four segments or
\* more (root/devices/a/balkon): a snapshot taken before the record expires
\* contains "a" with rssi -50.  A message on a topic of fewer than four
\* segments makes no update call: the snapshot finds no record that was not
\* there, with that rssi and time, before the message.
C11_FourSegmentTopicIngested ==
    (ScenarioSnapshot /\ ScenarioInTime) =>
        IF Len(frame["mqtt"].msg.topic) >= 4
        THEN /\ ScenarioReports
             /\ frame["mqtt"].calls =
                    <<<<"a", IntOf(frame["mqtt"].msg.payload.rssi)>>>>
        ELSE /\ frame["mqtt"].calls = <<>>
             /\ \A id \in DOMAIN frame["main"].seen :
                    /\ id \in DOMAIN frame["mqtt"].before
                    /\ frame["main"].seen[id].rssi = frame["mqtt"].before[id].rssi
                    /\ frame["main"].seen[id].last_seen =
                           frame["mqtt"].before[id].last_seen

\* the four-segment message of the scenario was ingested and is in the snapshot
C11_Witness ==
    /\ ScenarioSnapshot
    /\ ScenarioInTime
    /\ frame["mqtt"].msg.topic = <<"root", "devices", "a", "balkon">>
    /\ frame["mqtt"].msg.payload.rssi = JNum(-5000)
    /\ frame["mqtt"].before = EmptyDict
    /\ Active("main")["a"][1] = -50

\* ---- C16..C20: add_trail ----

\* the list the last add_trail call worked on, as it is now
After == bufs[call.leds]

\* the last call returned and every call so far had its arguments in the
\* documented ranges (channels 0..255, trail_length >= 0, 0 <= fade_factor <= 1)
ReturnedInRange == call.n > 0 /\ call.outcome = "returned" /\ call.documented

\* the slots the last call may write: (position - i) mod len(leds), 0 <= i < L
TrailSlots ==
    {(call.position - i) % NumLeds(call.before) : i \in 0..(call.trail_length - 1)}

\* trunc(c * f^i), for c >= 0 and f >= 0, with f^0 = 1
TruncProduct(c, f, i) == IF i = 0 THEN c ELSE (c * f[1]^i) \div (f[2]^i)

\* C16: after any sequence of add_trail calls with channels in [0,255], color
\* in [0,255] and fade_factor in [0,1], every channel of every pixel is an
\* integer in [0,255]; where the sum passes 255 the channel is 255.
C16_ChannelsInRange ==
    ReturnedInRange =>
        /\ \A i \in DOMAIN After : \A c \in 1..3 : After[i][c] \in 0..255
        /\ \A c \in 1..3 :
              (/\ call.trail_length > 0
               /\ call.before[call.position % NumLeds(call.before)][c]
                     + call.color[c] >= 255)
                => After[call.position % NumLeds(call.before)][c] = 255

\* two calls made, the second adding 100 to a channel that was 200: it is 255
C16_Witness ==
    /\ ReturnedInRange
    /\ call.n >= 2
    /\ call.trail_length > 0
    /\ \E i \in DOMAIN After :
          /\ i = call.position % NumLeds(call.before)
          /\ call.before[i][1] = 200
          /\ call.color[1] = 100
          /\ After[i][1] = 255

\* C17 as a procedure: for i = 0 .. L-1 in order,
\* buffer[(p - i) mod n][c] = min(255, buffer[..][c] + trunc(color[c] * f^i))
RECURSIVE PaintedFrom(_, _)
PaintedFrom(leds, i) ==
    IF i >= call.trail_length THEN leds
    ELSE LET idx == (call.position - i) % NumLeds(leds) IN
         PaintedFrom(
            [leds EXCEPT ![idx] =
                <<Min(255, @[1] + TruncProduct(call.color[1], call.fade_factor, i)),
                  Min(255, @[2] + TruncProduct(call.color[2], call.fade_factor, i)),
                  Min(255, @[3] + TruncProduct(call.color[3], call.fade_factor, i))>>],
            i + 1)

\* C17: add_trail applies, for i = 0 .. L-1 in order, buffer[(p - i) mod n][c]
\* = min(255, buffer[..][c] + trunc(color[c] * f^i)), truncating toward zero
\* and with f^0 = 1 also for f = 0 (arguments in the documented ranges):
\* color 100 at f = 0.5 from p = 0 in 10 black pixels gives 100, 50, 25 at
\* slots 0, 9, 8, and color 1 at f = 0.5 adds 0 to the slot behind the head.
C17_TruncatedFade ==
    ReturnedInRange =>
        /\ After = PaintedFrom(call.before, 0)
        /\ (/\ call.before = FreshLeds(10)
            /\ call.position = 0
            /\ call.color = <<100, 0, 0>>
            /\ call.trail_length = 3
            /\ call.fade_factor = Rat(1, 2))
              => (After[0][1] = 100 /\ After[9][1] = 50 /\ After[8][1] = 25)
        /\ (/\ call.color[2] = 1
            /\ call.fade_factor = Rat(1, 2)
            /\ call.trail_length > 1
            /\ NumLeds(After) > 1)
              => After[(call.position - 1) % NumLeds(After)][2]
                    = call.before[(call.position - 1) % NumLeds(After)][2]

\* a fade factor that is a binary fraction: its powers, their products with a
\* channel and the sums with a channel are doubles, so no operation rounds
BinaryFraction(f) == f[2] \in {1, 2, 4, 8}

\* the procedure of C17 is what a call with a binary fraction for fade_factor
\* does
C17_TruncatedFadeOfBinaryFractions ==
    (ReturnedInRange /\ BinaryFraction(call.fade_factor))
        => After = PaintedFrom(call.before, 0)

\* the call of test_add_trail_high_precision_fade: color 200 at f = 0.7 from
\* p = 5 in 10 black pixels leaves 97 two slots behind the head, where
\* trunc(200 * 0.7^2) is 98; 0.7**2 is the double 0.48999999999999994
C17_HighPrecisionFade ==
    /\ ReturnedInRange
    /\ call.before = FreshLeds(10)
    /\ call.position = 5
    /\ call.color = <<200, 0, 0>>
    /\ call.trail_length = 4
    /\ call.fade_factor = Rat(7, 10)
    /\ After[5][1] = 200 /\ After[4][1] = 140 /\ After[3][1] = 97
    /\ After[2][1] = 68
    /\ TruncProduct(200, Rat(7, 10), 2) = 98

\* a channel of value 1 was painted at f = 0.5 over a trail of three slots of
\* a list of five: the head got 1, the slot behind it 0
C17_Witness ==
    /\ ReturnedInRange
    /\ call.before = FreshLeds(5)
    /\ call.color[2] = 1
    /\ call.fade_factor = Rat(1, 2)
    /\ call.trail_length = 3
    /\ After[call.position % 5][2] = 1
    /\ After[(call.position - 1) % 5][2] = 0
    /\ After[(call.position - 1) % 5][1] = 127

\* C18: add_trail changes only the slots (position - i) mod len(leds) for
\* 0 <= i < trail_length and leaves every other slot as it was; with
\* trail_length = 1 only leds[position] changes, with trail_length = 0 nothing.
C18_OnlyTrailSlots ==
    (call.n > 0 /\ call.outcome = "returned") =>
        /\ DOMAIN After = DOMAIN call.before
        /\ \A i \in DOMAIN After : i \notin TrailSlots => After[i] = call.before[i]
        /\ call.trail_length = 1 =>
              \A i \in DOMAIN After :
                 i # call.position % NumLeds(After) => After[i] = call.before[i]
        /\ call.trail_length <= 0 => After = call.before

\* a trail of three slots painted from a negative position on ten pixels: the
\* three slots changed, the seven others did not
C18_Witness ==
    /\ call.n > 0
    /\ call.outcome = "returned"
    /\ call.trail_length = 3
    /\ call.position = -1
    /\ NumLeds(After) = 10
    /\ {i \in DOMAIN After : After[i] # call.before[i]} = {9, 8, 7}

\* the sum, over the passes j >= i that map to the slot, of trunc(color * f^j)
RECURSIVE Contributions(_, _, _)
Contributions(slot, c, i) ==
    IF i >= call.trail_length THEN 0
    ELSE (IF (call.position - i) % NumLeds(call.before) = slot
          THEN TruncProduct(call.color[c], call.fade_factor, i) ELSE 0)
         + Contributions(slot, c, i + 1)

\* the trail of the last call is longer than the list: its indices wrap
Wraps == call.trail_length > NumLeds(call.before)

\* C19: when trail_length exceeds len(leds) the indices wrap and a slot gets
\* several contributions from one call: each slot ends with the clamped sum,
\* over all i < trail_length that map to it, of trunc(color * f^i); 5 pixels,
\* position 2, color 100, f = 0.5, trail 10 gives 103, 51, 25 at slots 2, 1, 0.
C19_WrappedContributionsAdd ==
    (ReturnedInRange /\ Wraps) =>
        /\ \A slot \in DOMAIN After : \A c \in 1..3 :
              After[slot][c] =
                 Min(255, call.before[slot][c] + Contributions(slot, c, 0))
        /\ (/\ call.before = FreshLeds(5)
            /\ call.position = 2
            /\ call.color = <<100, 0, 0>>
            /\ call.trail_length = 10
            /\ call.fade_factor = Rat(1, 2))
              => (After[2][1] = 103 /\ After[1][1] = 51 /\ After[0][1] = 25)

\* the clamped sum of C19 is what a call with a binary fraction for
\* fade_factor leaves in every slot, whether its trail wraps or not
C19_WrappedContributionsOfBinaryFractions ==
    (ReturnedInRange /\ BinaryFraction(call.fade_factor)) =>
        \A slot \in DOMAIN After : \A c \in 1..3 :
           After[slot][c] =
              Min(255, call.before[slot][c] + Contributions(slot, c, 0))

\* a trail of four slots on three black pixels with the fade factor 0.7:
\* slot 2 got the passes 0 and 3, and slot 0 the pass 2 alone, which left 48
\* where trunc(100 * 0.49) is 49
C19_WrappedShortOfSum ==
    /\ ReturnedInRange
    /\ Wraps
    /\ call.before = FreshLeds(3)
    /\ call.position = 5
    /\ call.color = <<100, 0, 0>>
    /\ call.trail_length = 4
    /\ call.fade_factor = Rat(7, 10)
    /\ After[2][1] = 134 /\ After[1][1] = 70 /\ After[0][1] = 48
    /\ Contributions(0, 1, 0) = 49

\* a trail of ten slots on five pixels: the head's slot got the contributions
\* of the passes 0 and 5
C19_Witness ==
    /\ ReturnedInRange
    /\ Wraps
    /\ call.before = FreshLeds(5)
    /\ call.trail_length = 10
    /\ call.position = 2
    /\ call.fade_factor = Rat(1, 2)
    /\ After[2][1] = 103
    /\ Contributions(2, 1, 1) = 3

\* C20: add_trail raises ValueError when trail_length is negative or when
\* fade_factor is outside the range 0 to 1.
C20_RaisesValueError ==
    (/\ call.n > 0
     /\ \/ call.trail_length < 0
        \/ RatLt(call.fade_factor, Zero)
        \/ RatLt(One, call.fade_factor))
        => call.outcome = "ValueError"

\* ---- C12..C15: the render tick ----

\* controller.update has been called in the tick the loop is in
Delivered == loop.pc \in {"update", "sleep"}

\* C12: in every render tick one registry snapshot is taken; each beacon of
\* that snapshot, and no other, has its cursor advanced, its color computed
\* and its trail painted; then update is called exactly once, with the
\* finished list of exactly led_count pixels; then the loop sleeps
\* update_interval.  No call of update before the for loop is through, no
\* second call in a tick, no sleep before the call.
C12_TickOrder ==
    /\ loop.pc \in {"snapshot", "items"} =>
          /\ loop.sent = 0 /\ loop.slept = <<>>
          /\ loop.snaps = (IF loop.pc = "items" THEN 1 ELSE 0)
          /\ loop.painted \subseteq DOMAIN loop.snap
          /\ DOMAIN loop.items = DOMAIN loop.snap \ loop.painted
          /\ \A id \in DOMAIN positions :
                positions[id] =
                    IF id \in loop.painted
                    THEN ((IF id \in DOMAIN loop.cursors THEN loop.cursors[id]
                           ELSE -1) + 1) % led_count
                    ELSE loop.cursors[id]
          /\ loop.painted # {} =>
                /\ call.leds = loop.leds
                /\ \E id \in loop.painted :
                      /\ call.position = positions[id]
                      /\ call.color = BleBeaconToRgb(id, loop.snap[id][1],
                                                     loop.snap[id][2])
    /\ Delivered =>
          /\ loop.snaps = 1 /\ loop.sent = 1 /\ loop.slept = <<>>
          /\ loop.painted = DOMAIN loop.snap
          /\ sink.last.leds = loop.leds /\ sink.last.tick = loop.tick
          /\ sink.last.painted = DOMAIN loop.snap
          /\ sink.last.pixels = bufs[loop.leds]
          /\ NumLeds(sink.last.pixels) = led_count
    /\ (loop.pc = "top" /\ loop.tick > 0) =>
          /\ loop.snaps = 1 /\ loop.sent = 1
          /\ loop.slept = <<update_interval>>
          /\ sink.last.tick = loop.tick

\* the second tick has painted two beacons and handed its list over once
C12_Witness ==
    /\ loop.pc = "sleep"
    /\ loop.tick = 2
    /\ loop.painted = {"a", "b"}
    /\ loop.sent = 1
    /\ sink.last.tick = 2
    /\ led_count = 3

\* C13: every tick starts from a newly built all-zero list: the list handed
\* over holds only that tick's contributions (a pixel no trail of the tick
\* covers is [0,0,0], whatever it was in the tick before), and a list already
\* handed to the controller is never modified by a later tick.
C13_FreshListEachTick ==
    /\ loop.pc = "snapshot" =>
          /\ bufs[loop.leds] = FreshLeds(led_count)
          /\ loop.leds # sink.last.leds
    /\ loop.pc \in {"items", "update", "sleep"} =>
          /\ \A i \in DOMAIN bufs[loop.leds] :
                i \notin loop.slots => bufs[loop.leds][i] = Black
          /\ \A id \in DOMAIN loop.snap :
                loop.painted = {id} =>
                    bufs[loop.leds] =
                        AddTrail(FreshLeds(led_count), positions[id],
                                 BleBeaconToRgb(id, loop.snap[id][1], loop.snap[id][2]),
                                 trail_length, fade_factor)
    /\ sink.last # NoFrame => bufs[sink.last.leds] = sink.last.pixels

\* the second tick has painted its list, whose slot 2 is black; the list of
\* the first tick, still as it was handed over, has slot 2 lit
C13_Witness ==
    /\ loop.pc = "items"
    /\ loop.tick = 2
    /\ loop.painted = {"a"}
    /\ loop.items = EmptyDict
    /\ sink.last.tick = 1
    /\ led_count = 3
    /\ sink.last.pixels[2] # Black
    /\ bufs[sink.last.leds][2] # Black
    /\ bufs[loop.leds][2] = Black
    /\ bufs[loop.leds][1] # Black

\* C14: a tick whose snapshot is empty (as it is when the registry is empty)
\* hands the controller, exactly once, a list of exactly led_count pixels
\* that are all [0,0,0], and advances no cursor.
C14_EmptyTick ==
    (/\ loop.pc \in {"update", "sleep", "top"}
     /\ loop.tick > 0
     /\ loop.snap = EmptyDict)
        => /\ loop.sent = 1
           /\ sink.last.tick = loop.tick
           /\ NumLeds(sink.last.pixels) = led_count
           /\ \A i \in 0..(led_count - 1) : sink.last.pixels[i] = Black
           /\ positions = loop.cursors

\* a tick found the registry empty while the ingest thread was about to store
\* a sighting, and handed over three black pixels
C14_Witness ==
    /\ loop.pc = "sleep"
    /\ loop.seen = EmptyDict
    /\ loop.snap = EmptyDict
    /\ loop.sent = 1
    /\ led_count = 3
    /\ sink.last.tick = loop.tick
    /\ sink.last.pixels = FreshLeds(3)
    /\ frame["mqtt"].pc = "upd_wait"
    /\ positions = loop.cursors

\* C15: a transport error raised while a frame is sent never aborts the render
\* loop: update swallows it and returns, for the HTTP and the UDP controller
\* alike, and the loop goes on to the next tick.
C15_TransportErrorsSwallowed ==
    sink.failed => (loop.pc # "aborted" /\ loop.exc = "")

\* the part of C15 the code keeps: no error of requests.post leaves
\* WLEDHTTPController.update
C15_HttpErrorsSwallowed ==
    sink.kind = "http" => (loop.pc # "aborted" /\ loop.exc = "")

\* ---- the position cursors ----

\* a next_position call has been made, on a strip of one LED or more
Stepped == runner.built /\ runner.id # "" /\ led_count >= 1

\* C21: for led_count >= 1 the calls of next_position for one identity return
\* 0, 1, ..., led_count - 1, 0, 1, ...: the k-th call returns (k - 1) mod
\* led_count, whatever calls are made for other identities in between; the
\* first returns 0, each later one (previous + 1) mod led_count; the value
\* returned is the value stored, and every stored index is in [0, led_count).
C21_CyclicSequence ==
    Stepped =>
        LET id == runner.id
            k == runner.calls[id]
        IN  /\ runner.exc = ""
            /\ runner.returned = (k - 1) % led_count
            /\ (k = 1) => (id \notin DOMAIN runner.prior /\ runner.returned = 0)
            /\ (k > 1) => /\ id \in DOMAIN runner.prior
                          /\ runner.returned = (runner.prior[id] + 1) % led_count
            /\ positions[id] = runner.returned
            /\ \A b \in DOMAIN positions : positions[b] \in 0..(led_count - 1)

\* the fourth call for "a" on a strip of 3 returns 0 again, with a call for
\* "b" made in between
C21_Witness ==
    /\ Stepped
    /\ led_count = 3
    /\ runner.id = "a"
    /\ runner.calls["a"] = 4
    /\ runner.returned = 0
    /\ runner.prior["a"] = 2
    /\ "b" \in DOMAIN runner.calls

\* C22: a next_position call for A leaves the stored index of every other
\* identity B as it was (stored or not), and with it the value B's next call
\* returns.
C22_IndependentCursors ==
    [][\A a \in BeaconIds : \A b \in BeaconIds \ {a} :
          (/\ led_count >= 1
           /\ runner.built
           /\ runner'.calls # runner.calls
           /\ runner'.id = a)
          => /\ (b \in DOMAIN positions') <=> (b \in DOMAIN positions)
             /\ (b \in DOMAIN positions) => (positions'[b] = positions[b])
             /\ NextPosition(b)' = NextPosition(b)]_vars

\* "a" has moved twice past "b", which is still where its one call left it
C22_Witness ==
    /\ Stepped
    /\ led_count = 3
    /\ runner.id = "a"
    /\ runner.calls["a"] = 3
    /\ "b" \in DOMAIN runner.calls
    /\ runner.calls["b"] = 1
    /\ positions["b"] = 0
    /\ positions["a"] = 2

\* C23: a BeaconRunner for led_count = 0 is never built, and no call of
\* next_position meets the modulo by zero.
C23_ZeroRejectedAtConstruction ==
    /\ (led_count = 0) => ~runner.built
    /\ runner.exc # "ZeroDivisionError"

\* C24: no cursor is ever evicted.  The set of stored cursors never loses an
\* identity, and a beacon painted in a tick moves on from the cursor it had at
\* the top of the tick, to (cursor + 1) mod led_count: its position is the
\* number of times it was painted so far, less one, mod led_count, also when
\* a snapshot has removed it from the registry in between.
C24_CursorsNeverEvicted ==
    /\ [][DOMAIN positions \subseteq DOMAIN positions']_vars
    /\ [](/\ DOMAIN loop.cursors \subseteq DOMAIN positions
          /\ \A id \in DOMAIN positions :
                /\ id \in DOMAIN runner.calls
                /\ positions[id] = (runner.calls[id] - 1) % led_count
                /\ id \in (DOMAIN loop.cursors) \ loop.painted
                      => positions[id] = loop.cursors[id]
                /\ id \in (DOMAIN loop.cursors) \cap loop.painted
                      => positions[id] = (loop.cursors[id] + 1) % led_count)

\* "a" was painted at 0, a later snapshot removed it from the registry, it
\* was reported again and is painted at 1
C24_Witness ==
    /\ loop.tick = 3
    /\ "a" \in loop.gone
    /\ "a" \in loop.painted
    /\ "a" \in DOMAIN loop.cursors
    /\ loop.cursors["a"] = 0
    /\ positions["a"] = 1
    /\ runner.calls["a"] = 2

\* ---- the HTTP controller ----

\* the controller is a WLEDHTTPController and update has been called
HttpCalled == sink.kind = "http" /\ loop.sent > 0 /\ sink.last.tick = loop.tick

\* C25: the POSTs of one call of update are made one after another and stop
\* at the first that succeeds: after k failed attempts and a success there are
\* k + 1 attempts and update has returned; while update is still in its loop
\* every attempt so far has failed; never more than max_retries attempts.
C25_StopsAtFirstSuccess ==
    HttpCalled =>
        /\ sink.posts = sink.attempt
        /\ sink.posts <= sink.max_retries
        /\ sink.failures <= sink.posts
        /\ (sink.outcome = "sent")
              => (sink.posts = sink.failures + 1 /\ loop.pc # "update")
        /\ (loop.pc = "update") => (sink.posts = sink.failures /\ sink.outcome = "")
        /\ (sink.posts > sink.failures) => sink.outcome = "sent"

\* max_retries = 2: a timeout (with its sleep), then a POST that succeeds
C25_Witness ==
    /\ HttpCalled
    /\ sink.max_retries = 2
    /\ sink.failures = 1
    /\ sink.sleeps = 1
    /\ sink.posts = 2
    /\ sink.outcome = "sent"
    /\ loop.pc = "sleep"

\* C26: when every attempt of a call of update fails, with an exception that
\* is retried or with any other request exception, update makes exactly
\* max_retries attempts, drops the frame and returns without raising: the
\* render loop goes on to its sleep.
C26_DropsAfterMaxRetries ==
    HttpCalled =>
        /\ sink.outcome # "raised"
        /\ loop.pc # "aborted"
        /\ (loop.pc # "update" /\ sink.outcome # "sent")
              => /\ sink.outcome = "dropped"
                 /\ sink.posts = sink.max_retries
                 /\ sink.failures = sink.max_retries
        /\ (sink.outcome = "dropped") => loop.pc # "update"

\* max_retries = 2: two failed attempts, the first of them with a request
\* exception that is not retried with a sleep; the frame is dropped
C26_Witness ==
    /\ HttpCalled
    /\ sink.max_retries = 2
    /\ sink.failures = 2
    /\ sink.posts = 2
    /\ sink.sleeps = 0
    /\ sink.outcome = "dropped"
    /\ loop.pc = "sleep"
    /\ loop.exc = ""

\* ---- the UDP controller ----

\* the pixels a receiver reads from a DRGB packet: the bytes after the first
\* four, in groups of three
Decode(packet) ==
    [i \in 0..(((Len(packet) - 4) \div 3) - 1) |->
        <<packet[4 + 3 * i + 1], packet[4 + 3 * i + 2], packet[4 + 3 * i + 3]>>]

\* C27: a call of WLEDUDPController.update that returns has sent one datagram:
\* the bytes of 'DRGB', then R, G, B of every pixel in the order of the list,
\* 4 + 3 * n bytes; the bytes from the fifth on, in groups of three, are the
\* list that was passed in.
C27_DrgbPacket ==
    (sink.kind = "udp" /\ loop.sent > 0 /\ loop.pc = "sleep") =>
        /\ sink.datagrams = 1
        /\ sink.last.tick = loop.tick
        /\ Len(sink.packet) = 4 + 3 * NumLeds(sink.last.pixels)
        /\ SubSeq(sink.packet, 1, 4) = <<68, 82, 71, 66>>
        /\ \A i \in 1..Len(sink.packet) : sink.packet[i] \in 0..255
        /\ Decode(sink.packet) = sink.last.pixels
        /\ sink.last.pixels = bufs[loop.leds]

\* a packet of 13 bytes for a strip of three with a beacon's trail on it: the
\* head at index 1, half of it at index 0, index 2 black
C27_Witness ==
    /\ sink.kind = "udp"
    /\ loop.pc = "sleep"
    /\ led_count = 3
    /\ Len(sink.packet) = 13
    /\ loop.painted = {"a"}
    /\ positions["a"] = 1
    /\ sink.packet = <<68, 82, 71, 66, 0, 127, 48, 0, 255, 96, 0, 0, 0>>

\* ---- the duration limit of the simulator ----

\* C28: with a duration limit of d >= 0 seconds the loop does a tick's work
\* only when the check at the top of the tick saw an elapsed time of at most
\* d; once the check sees more it stops, and a stopped loop has done nothing
\* since: every frame counted was updated, rendered and shown before.
C28_StopsAtDuration ==
    sim.duration.given =>
        /\ (sim.pc \in {"generate", "render"}) => sim.elapsed <= sim.duration.secs
        /\ (sim.pc = "stopped")
              => /\ sim.elapsed > sim.duration.secs
                 /\ sim.generated = sim.frame_count
                 /\ loop.tick = sim.frame_count
                 /\ loop.pc = "off"

\* C28 for the limits of more than 0 seconds, which the check at line 269
\* does apply
C28_PositiveDurationStops ==
    (sim.duration.given /\ sim.duration.secs > 0) =>
        /\ (sim.pc \in {"generate", "render"}) => sim.elapsed <= sim.duration.secs
        /\ (sim.pc = "stopped")
              => /\ sim.elapsed > sim.duration.secs
                 /\ sim.generated = sim.frame_count
                 /\ loop.tick = sim.frame_count
                 /\ loop.pc = "off"

\* ---- the configuration ----

\* C29: a configuration that Config.validate() accepts has every parameter
\* in range: no negative timeout or fade-out duration, an LED count of 1 or
\* more, no negative trail length, a fade factor of at most 1, no negative
\* render interval.
C29_EveryParameterValidated ==
    (startup.pc = "validated") =>
        /\ timeout >= 0
        /\ fade_out >= 0
        /\ led_count >= 1
        /\ trail_length >= 0
        /\ RatLeq(fade_factor, One)
        /\ RatLeq(Zero, update_interval)

\* C29 for the two parameters whose getters do check a range: LED_COUNT and
\* FADE_FACTOR
C29_LedCountAndFadeFactorValidated ==
    /\ (startup.pc = "validated")
          => (led_count >= 1 /\ RatLt(Zero, fade_factor) /\ RatLeq(fade_factor, One))
    /\ (startup.pc = "failed")
          => (led_count <= 0 \/ ~RatLt(Zero, fade_factor) \/ ~RatLeq(fade_factor, One))

\* ---- the color mapper ----

\* the sum of the three channels
Brightness(color) == color[1] + color[2] + color[3]

\* C30: for two ble_beacon_to_rgb calls with the same identity and signal
\* strength, the call with the lower visibility never gives the larger sum of
\* channels; every channel is in [0, 255]; visibility 0 gives (0, 0, 0).
C30_BrightnessMonotonic ==
    (mapped.n > 0) =>
        /\ \A c \in 1..3 : mapped.color[c] \in 0..255
        /\ (mapped.life = Zero) => (mapped.color = <<0, 0, 0>>)
        /\ (mapped.n > 1 /\ mapped.id = mapped.prev_id
                         /\ mapped.rssi = mapped.prev_rssi)
              => /\ RatLeq(mapped.prev_life, mapped.life)
                      => Brightness(mapped.prev_color) <= Brightness(mapped.color)
                 /\ RatLeq(mapped.life, mapped.prev_life)
                      => Brightness(mapped.color) <= Brightness(mapped.prev_color)

\* "b" at -60 with visibility 1/2 after visibility 1: 129 + 127 after 258 + 255
C30_Witness ==
    /\ mapped.n = 2
    /\ mapped.id = "b" /\ mapped.prev_id = "b"
    /\ mapped.rssi = -60 /\ mapped.prev_rssi = -60
    /\ mapped.prev_life = One
    /\ mapped.life = Rat(1, 2)
    /\ mapped.prev_color = <<3, 255, 0>>
    /\ mapped.color = <<1, 127, 0>>

\* ---- the gradient ----

\* C31: gradient_color gives yellow (1, 1, 0) for every distance below the
\* near threshold and red (1, 0, 0) for every distance above the far
\* threshold.
C31_NearYellowFarRed ==
    mapped.graded =>
        /\ RatLt(mapped.distance, mapped.near) => mapped.gradient = <<One, One, Zero>>
        /\ RatLt(mapped.far, mapped.distance) => mapped.gradient = <<One, Zero, Zero>>

\* C31 as the code has it: green (0, 1, 0) at and below the near threshold,
\* yellow at the middle of the range, red at and above the far threshold,
\* the first channel rising and then the second falling in between
C31_GreenYellowRed ==
    mapped.graded =>
        LET mid == RatDiv(RatAdd(mapped.near, mapped.far), Rat(2, 1)) IN
        /\ RatLeq(mapped.distance, mapped.near) => mapped.gradient = <<Zero, One, Zero>>
        /\ mapped.distance = mid => mapped.gradient = <<One, One, Zero>>
        /\ RatLeq(mapped.far, mapped.distance) => mapped.gradient = <<One, Zero, Zero>>
        /\ RatLt(mapped.distance, mid) => mapped.gradient[2] = One
        /\ RatLeq(mid, mapped.distance) => mapped.gradient[1] = One
        /\ \A c \in 1..2 : RatLeq(Zero, mapped.gradient[c])
                              /\ RatLeq(mapped.gradient[c], One)
        /\ mapped.gradient[3] = Zero

\* ---- the lock ----

\* the positions of a call inside its with block
Inside == {"upd_cs", "upd_release", "snap_iter", "snap_release"}

\* some thread can take a step
CanStep ==
    \E t \in Threads :
        \/ frame[t].pc \in {"idle", "snap_done", "snap_raised"} \cup Inside
        \/ frame[t].pc \in {"upd_wait", "snap_wait"} /\ LockFree

\* C32: a thread owns the lock only inside its with block (so the lock is
\* free after every return and every exception), some thread can always
\* take a step, and under fair scheduling every update call and every
\* snapshot call that has started ends.
C32_LockAlwaysReleased ==
    /\ [](\A t \in Threads : lock = t => frame[t].pc \in Inside)
    /\ []CanStep
    /\ \A t \in Threads : (frame[t].pc # "idle") ~> (frame[t].pc = "idle")

\* the positions of a call that waits for the lock
Waits == {"upd_wait", "snap_wait"}

\* C32 as the code has it: a thread owns the lock only inside its with
\* block (so the lock is free after every return and every exception), some
\* thread can always take a step, and under fair scheduling a call that has
\* the lock ends and a call that waits for it ends unless the other thread
\* has the lock again and again.
C32_ReleasedAndNoDeadlock ==
    /\ [](\A t \in Threads : lock = t => frame[t].pc \in Inside)
    /\ []CanStep
    /\ \A t \in Threads :
          (frame[t].pc \notin Waits \cup {"idle"}) ~> (frame[t].pc = "idle")
    /\ \A t \in Threads :
          \/ []<>(frame[t].pc \notin Waits)
          \/ []<>(lock \notin {NoOwner, t})

\* a snapshot has raised, and the other thread is inside its with block
C32_Witness ==
    \E t, u \in Threads :
        /\ frame[t].pc = "snap_raised"
        /\ lock = u
        /\ frame[u].pc \in Inside

\* ---- the sleeps of the HTTP controller ----

\* the POSTs of the call of update that were followed by another POST
Retries == {i \in 1..Len(sink.results) : i < Len(sink.results)}

\* the call of update has ended
HttpEnded == sink.outcome \in {"sent", "dropped"}

\* C33: the call of update has slept once for every timeout or connection
\* failure that was not its last allowed attempt, and never otherwise: k such
\* failures and a success give k sleeps, max_retries of them give
\* max_retries - 1, and a success, the last allowed attempt and a request
\* error of another kind are followed by no sleep.
C33_SleepsBetweenRetries ==
    sink.kind = "http" =>
        LET res == sink.results
            n == sink.max_retries
            slept == {i \in 1..Len(res) : res[i] \in HttpRetried /\ i < n}
        IN  /\ sink.sleeps = Cardinality(slept)
            /\ Len(res) <= n
            /\ \A i \in 1..Len(res) : res[i] = "ok" => i = Len(res)
            /\ (HttpEnded /\ Len(res) > 0 /\ res[Len(res)] = "ok"
                    /\ \A i \in Retries : res[i] \in HttpRetried)
                  => sink.sleeps = Len(res) - 1
            /\ (HttpEnded /\ n > 0 /\ Len(res) = n
                    /\ \A i \in 1..n : res[i] \in HttpRetried)
                  => sink.sleeps = n - 1
            /\ (\A i \in 1..Len(res) : res[i] \notin HttpRetried) => sink.sleeps = 0

\* a timeout, then a request error of another kind as the last allowed
\* attempt: one sleep, between the two
C33_Witness ==
    /\ sink.kind = "http"
    /\ sink.max_retries = 2
    /\ sink.results = <<"Timeout", "RequestException">>
    /\ sink.sleeps = 1
    /\ sink.outcome = "dropped"

\* two timeouts with max_retries = 2: one sleep
C33_Witness_AllFail ==
    /\ sink.kind = "http"
    /\ sink.max_retries = 2
    /\ sink.results = <<"Timeout", "ConnectionError">>
    /\ sink.sleeps = 1
    /\ sink.outcome = "dropped"

\* ---- the statistics ----

\* the sum of the counts of a dict
RECURSIVE SumOf(_, _)
SumOf(d, ids) ==
    IF ids = {} THEN 0
    ELSE LET id == CHOOSE x \in ids : TRUE
         IN  d[id] + SumOf(d, ids \ {id})

Total(d) == SumOf(d, DOMAIN d)

\* C34: once every record_message call has returned, total_messages is the
\* number of calls and the sum of the per-beacon counts; and no get_stats
\* result has a total that differs from the sum of its by_beacon.
C34_NoLostIncrement ==
    /\ (\A t \in Threads : stats.frame[t].pc \notin
            {"rec_wait", "rec_total", "rec_total_store", "rec_beacon",
             "rec_beacon_store", "rec_release"})
         => /\ stats.total = stats.started
            /\ stats.total = stats.returned
            /\ stats.total = Total(stats.by_beacon)
    /\ stats.got.given => stats.got.total = Total(stats.got.by_beacon)

\* a sighting is in the registry and in main's snapshot, and the
\* record_message of the update that stored it has not yet counted it
StoredNotYetCounted ==
    /\ frame["mqtt"].caller = "tracked"
    /\ frame["mqtt"].pc = "upd_done"
    /\ frame["mqtt"].beacon_id \in DOMAIN beacons
    /\ frame["main"].pc = "snap_done"
    /\ frame["mqtt"].beacon_id \in DOMAIN Active("main")
    /\ stats.total = 0

\* three calls for two beacons have returned, and a get_stats after them has
\* returned all three
C34_Witness ==
    /\ stats.returned = 3
    /\ stats.got.given
    /\ stats.got.total = 3
    /\ DOMAIN stats.got.by_beacon = {"a", "b"}
    /\ \A t \in Threads : stats.frame[t].pc = "idle"

\* ---- the timestamps of concurrent updates ----

\* C35: the last_seen stored for an identity never moves backwards, whatever
\* the interleaving of the update calls.
C35_LastSeenNeverBackwards ==
    [][\A id \in DOMAIN beacons \cap DOMAIN beacons' :
          beacons'[id].last_seen >= beacons[id].last_seen]_vars

\* C35 as the code has it: the record carries the clock reading of the call
\* that stored last, a reading taken before that call had the lock and so
\* not later than the clock
C35_StoredIsLastStorersReading ==
    /\ \A id \in DOMAIN beacons :
          /\ id \in DOMAIN hist
          /\ beacons[id].last_seen = hist[id].at
          /\ beacons[id].last_seen <= clock
    /\ \A t \in Threads : frame[t].pc \in {"upd_wait", "upd_cs"} => frame[t].now <= clock

\* ---- a beacon whose updates stop ----

\* the record of id was stored with the clock reading v, early enough for the
\* clock to reach the end of its fade-out
Doomed(id, v) ==
    /\ id \in DOMAIN beacons
    /\ beacons[id].last_seen = v
    /\ v + timeout + fade_out <= ExpiryMaxTime

\* the record of id stored with the reading v is gone, or a later update has
\* replaced it
GoneOrRenewed(id, v) == id \notin DOMAIN beacons \/ beacons[id].last_seen # v

\* the render loop has been left by an exception: it takes no snapshot any
\* more
LoopLeft == loop.pc = "aborted"

\* the time at which a record stored with the reading v has faded out
FadedAt(v) == v + timeout + fade_out

\* the render loop has called snapshot() with the clock at or after the end
\* of the fade-out of a record stored with the reading v, and the call has
\* not entered its with block yet
SnapshotDue(v) ==
    /\ loop.pc = "snapshot"
    /\ frame["main"].pc = "snap_wait"
    /\ frame["main"].now >= FadedAt(v)

\* the render loop is at `while True` with a tick of the MaxFrames followed
\* still to come
TickToCome == loop.pc = "top" /\ loop.tick < loop.ticks

C37_VisibilityNeverIncreases ==
    /\ [][(\A t \in Threads : frame[t].pc # "upd_cs") =>
            \A id \in DOMAIN beacons \cap DOMAIN beacons' :
                RatLeq(beacons'[id].life, beacons[id].life)]_vars
    /\ [](\A t \in Threads : Finishing(t) =>
            \A id \in DOMAIN Active(t) :
                /\ RatLt(Zero, Active(t)[id][2])
                /\ RatLeq(Active(t)[id][2], One)
                /\ RatLeq(Active(t)[id][2], frame[t].seen[id].life))

\* a snapshot reports a beacon below the life stored for it before, and
\* another, updated since, at full life
C37_Witness ==
    \E t \in Threads :
      /\ Finishing(t)
      /\ \E id, other \in DOMAIN Active(t) :
        /\ RatLt(Active(t)[id][2], frame[t].seen[id].life)
        /\ RatLt(Zero, Active(t)[id][2])
        /\ Active(t)[other][2] = One
        /\ hist[id].at < hist[other].at

\* ---- a fade-out of 0 ----

\* C38: no snapshot() call raises, whatever the timeout >= 0, the fade-out
\* >= 0 and the ages of the records.
C38_SnapshotNeverRaises == \A t \in Threads : frame[t].pc # "snap_raised"

\* C38 as the code has it: snapshot raises only with a fade-out of 0, for a
\* record older than the timeout, and then the lock is free again, the
\* record is still stored and nothing is returned
C38_RaisesOnlyWithZeroFadeOut ==
    \A t \in Threads : frame[t].pc = "snap_raised" =>
        /\ fade_out = 0
        /\ lock # t
        /\ \E id \in DOMAIN beacons : frame[t].now - beacons[id].last_seen > timeout

\* ---- the cursors in a tick ----

\* the for loop of the tick has run over every item of the snapshot
TickPainted == loop.pc = "update" /\ led_count > 0

\* the cursor a tick found for id: positions.get(beacon_id, -1)
CursorBefore(id) == IF id \in DOMAIN loop.cursors THEN loop.cursors[id] ELSE -1

\* C39: at the end of a tick's for loop the cursor of every identity in the
\* tick's snapshot is one step (mod led_count) past the cursor the tick
\* found, every other cursor is as the tick found it, and two identities in
\* the snapshot that have been in the same number of snapshots (as two first
\* seen in the same tick and present ever since have) are at one position.
C39_OneStepPerTick ==
    TickPainted =>
        /\ DOMAIN positions = DOMAIN loop.cursors \cup DOMAIN loop.snap
        /\ loop.painted = DOMAIN loop.snap
        /\ \A id \in DOMAIN loop.snap :
              positions[id] = (CursorBefore(id) + 1) % led_count
        /\ \A id \in DOMAIN positions \ DOMAIN loop.snap :
              positions[id] = loop.cursors[id]
        /\ \A id, other \in DOMAIN loop.snap :
              runner.calls[id] = runner.calls[other] => positions[id] = positions[other]

\* the second tick of two beacons first seen in the first: both cursors have
\* gone from 0 to 1
C39_Witness ==
    /\ TickPainted
    /\ loop.tick = 2
    /\ led_count = 3
    /\ DOMAIN loop.snap = {"a", "b"}
    /\ loop.cursors = [id \in {"a", "b"} |-> 0]
    /\ positions = [id \in {"a", "b"} |-> 1]

\* a tick whose snapshot has one beacon and not the other: the cursor of the
\* beacon that is out stays where it was
C39_Witness_Absent ==
    /\ TickPainted
    /\ led_count = 3
    /\ DOMAIN loop.snap = {"b"}
    /\ "a" \in DOMAIN loop.cursors
    /\ positions["a"] = loop.cursors["a"]

====
